---- MODULE Spec2Model ----
(***************************************************************************)
(* zendriver core: the scoped collectors built on a CDP Connection, and    *)
(* the key-event compiler.                                                 *)
(*   expect.py     BaseRequestExpectation, DownloadExpectation             *)
(*   intercept.py  BaseFetchInterception                                   *)
(*   keys.py       KeyEvents                                                *)
(* The Connection itself (handler registry, dispatch of events to          *)
(* asynchronous handlers, send, close) is not part of the sources at hand  *)
(* and is modelled from spec.md sections 3, 4.2 and 5.                     *)
(***************************************************************************)
EXTENDS Integers, Sequences, FiniteSets, TLC

VARIABLES
    handlers,                 \* Connection.handlers: event type -> sequence of handlers
    tasks,                    \* event loop: scheduled asynchronous handler invocations (FIFO)
    sent,                     \* commands transmitted by Connection.send, in send order
    closed,                   \* the Connection was closed / its transport dropped
    heap,                     \* the asyncio.Future objects allocated so far
    url_pattern,              \* BaseRequestExpectation.url_pattern
    request_future,           \* BaseRequestExpectation.request_future (a reference into heap)
    response_future,          \* BaseRequestExpectation.response_future
    loading_finished_future,  \* BaseRequestExpectation.loading_finished_future
    request_id,               \* BaseRequestExpectation.request_id
    scope,                    \* "new" | "entered" | "exited": the async-with scope
    rb,                       \* the coroutine of one `await expectation.response_body`
    stage,                    \* browser: per request id, how many of its events were emitted
    nResets,                  \* number of reset() calls so far
    _download_behavior,       \* Connection._download_behavior: <<>>, <<behavior>> or <<behavior, path>>
    default_behavior,         \* DownloadExpectation.default_behavior
    download_path,            \* DownloadExpectation.download_path
    future,                   \* DownloadExpectation.future (a reference into heap)
    dl,                       \* the coroutine owning the download scope: its position
    entry_behavior,           \* _download_behavior as it was when the download scope was entered
    fetch_response_future,    \* BaseFetchInterception.response_future (a reference into heap)
    enabled_domains,          \* Connection.enabled_domains
    fi,                       \* the coroutine owning the interception scope: its position
    op,                       \* the coroutine of one operation awaiting the paused event
    nOps,                     \* number of operations called so far
    call,                     \* key compiler: the call under way (function and arguments)
    result,                   \* key compiler: what the call returned or raised
    ke,                       \* key compiler: the KeyEvents instance as the call left it
    second,                   \* key compiler: what the same call on that instance gives next
    count,                    \* Connection: the command id counter (the last id drawn)
    inflight,                 \* Connection.inflight: id -> the command awaiting its reply
    outbox,                   \* Transport: frames handed over by send, not yet on the wire
    outcome,                  \* how each finished send ended: id -> result or error kind
    invoked,                  \* the handler invocations started so far, in order
    calls,                    \* add_handler / remove_handlers: number of calls, and the last one
    vw                        \* the coroutine of one bounded wait on expectation.value

vars == <<handlers, tasks, sent, closed, heap, url_pattern, request_future,
          response_future, loading_finished_future, request_id, scope, rb,
          stage, nResets, _download_behavior, default_behavior, download_path,
          future, dl, entry_behavior, fetch_response_future, enabled_domains, fi,
          op, nOps, call, result, ke, second, count, inflight, outbox, outcome, invoked, calls, vw>>

expectVars == <<url_pattern, request_future, response_future, loading_finished_future,
                request_id, scope, rb>>
downloadVars == <<_download_behavior, default_behavior, download_path, future, dl,
                  entry_behavior>>
fetchVars == <<fetch_response_future, enabled_domains, fi, op, nOps>>
keyVars == <<call, result, ke, second>>
sendVars == <<count, inflight, outbox, outcome>>
registryVars == <<invoked, calls>>

(* ------------------------------ bounds --------------------------------- *)
MaxResets == 1      \* reset() calls in one behaviour

(* ------------------------------ values --------------------------------- *)
None == 0           \* Python None (request ids start at 1)
NoEvent == [type |-> "none", request_id |-> 0, url |-> <<>>]
ReqIds == {1, 2}   \* the requests the browser issues

RequestWillBeSent == "Network.requestWillBeSent"
ResponseReceived == "Network.responseReceived"
LoadingFinished == "Network.loadingFinished"

\* URLs and URL patterns are sequences of tokens.  A pattern token is a
\* literal, "." (any one token), ".*" (any run of tokens) or "(" (an
\* unbalanced parenthesis: the pattern does not compile).
Urls == {<<"a", "b">>, <<"a", "b", "c">>}
Patterns == {<<"a", "b">>, <<"a", ".*">>, <<"b">>, <<"(">>}

DownloadWillBegin == "Browser.downloadWillBegin"
RequestPaused == "Fetch.requestPaused"

NetworkEvents ==
    [type : {RequestWillBeSent}, request_id : ReqIds, url : Urls]
    \cup [type : {ResponseReceived, LoadingFinished}, request_id : ReqIds, url : {<<>>}]
DownloadEvents == [type : {DownloadWillBegin}, request_id : ReqIds, url : {<<>>}]
FetchEvents == [type : {RequestPaused}, request_id : ReqIds, url : {<<>>}]

\* A command handed to Connection.send.
Cmd(method, rid, args) == [method |-> method, request_id |-> rid, args |-> args]

(* ------------------------- re.fullmatch -------------------------------- *)
RECURSIVE MatchFrom(_, _)
MatchFrom(p, u) ==
    IF p = <<>> THEN u = <<>>
    ELSE IF Head(p) = ".*"
         THEN MatchFrom(Tail(p), u) \/ (u # <<>> /\ MatchFrom(p, Tail(u)))
         ELSE /\ u # <<>>
              /\ (Head(p) = "." \/ Head(p) = Head(u))
              /\ MatchFrom(Tail(p), Tail(u))

Compiles(p) == \A i \in 1..Len(p) : p[i] # "("

fullmatch_AsMatch(p, u) ==
    IF ~Compiles(p) THEN "raise"
    ELSE IF \E k \in 0..Len(u) : MatchFrom(p, SubSeq(u, 1, k)) THEN "match" ELSE "nomatch"

\* re.fullmatch(pattern, string): "raise" (re.error), "match" or "nomatch".
fullmatch(p, u) ==
    IF ~Compiles(p) THEN "raise"
    ELSE IF MatchFrom(p, u) THEN "match" ELSE "nomatch"

(* ---------------------- Connection: handler registry ------------------- *)
RECURSIVE Without(_, _)
Without(s, f) ==
    IF s = <<>> THEN <<>>
    ELSE IF Head(s) = f THEN Without(Tail(s), f)
         ELSE <<Head(s)>> \o Without(Tail(s), f)

Count(s, f) == Cardinality({i \in 1..Len(s) : s[i] = f})

\* Connection.add_handler(event_type, fn): append to the bucket of event_type.
add_handler(h, et, f) ==
    IF et \in DOMAIN h
    THEN [h EXCEPT ![et] = Append(@, f)]
    ELSE [x \in DOMAIN h \cup {et} |-> IF x = et THEN <<f>> ELSE h[x]]

remove_handlers_FirstOnly(h, et, f) ==
    IF et \in DOMAIN h /\ Count(h[et], f) > 0
    THEN LET i == CHOOSE k \in 1..Len(h[et]) :
                    h[et][k] = f /\ \A j \in 1..(k - 1) : h[et][j] # f
         IN  [h EXCEPT ![et] = SubSeq(@, 1, i - 1) \o SubSeq(@, i + 1, Len(@))]
    ELSE h

\* Connection.remove_handlers(event_type, fn): remove the matching entries of
\* that bucket; an absent entry is not an error.
remove_handlers(h, et, f) ==
    IF et \in DOMAIN h THEN [h EXCEPT ![et] = Without(@, f)] ELSE h

Registered(h, et, f) == IF et \in DOMAIN h THEN Count(h[et], f) ELSE 0

(* --------------------------- asyncio.Future ---------------------------- *)
\* A future is pending, done (it holds a result) or cancelled.
Future == [st |-> "pending", ev |-> NoEvent]
Done(f) == heap[f].st = "done"
Pending(f) == heap[f].st = "pending"



(* ===================== BaseRequestExpectation ========================== *)
\* The callers suspended on future f are resumed through the event loop's queue.
Wake(f) ==
    (IF rb.pc \in {"await_response", "await_loading"} /\ rb.fut = f
     THEN <<[h |-> "response_body", ev |-> NoEvent]>>
     ELSE <<>>)
    \o (IF op.pc = "await_paused" /\ op.fut = f
        THEN <<[h |-> "operation", ev |-> NoEvent]>>
        ELSE <<>>)

\* Future.set_result(event) on future f; it raises InvalidStateError when the
\* future is already done.  rest: the queue behind the running task.
set_result(f, event, rest) ==
    IF Pending(f)
    THEN /\ heap' = [heap EXCEPT ![f] = [st |-> "done", ev |-> event]]
         /\ tasks' = rest \o Wake(f)
    ELSE /\ UNCHANGED heap
         /\ tasks' = rest

_remove_request_handler(h) == remove_handlers(h, RequestWillBeSent, "_request_handler")
_remove_response_handler(h) == remove_handlers(h, ResponseReceived, "_response_handler")
_remove_loading_finished_handler(h) ==
    remove_handlers(h, LoadingFinished, "_loading_finished_handler")

_request_handler(event, rest) ==
    LET m == fullmatch(url_pattern, event.url) IN
    CASE m = "raise" ->
            /\ UNCHANGED <<handlers, request_id, heap>>
            /\ tasks' = rest
      [] m = "match" ->
            /\ handlers' = _remove_request_handler(handlers)
            /\ request_id' = event.request_id
            /\ set_result(request_future, event, rest)
      [] OTHER ->
            /\ UNCHANGED <<handlers, request_id, heap>>
            /\ tasks' = rest

_response_handler_AnyId(event, rest) ==
    /\ handlers' = _remove_response_handler(handlers)
    /\ UNCHANGED request_id
    /\ set_result(response_future, event, rest)

_response_handler(event, rest) ==
    IF event.request_id = request_id
    THEN /\ handlers' = _remove_response_handler(handlers)
         /\ UNCHANGED request_id
         /\ set_result(response_future, event, rest)
    ELSE /\ UNCHANGED <<handlers, request_id, heap>>
         /\ tasks' = rest

_loading_finished_handler(event, rest) ==
    IF event.request_id = request_id
    THEN /\ handlers' = _remove_loading_finished_handler(handlers)
         /\ UNCHANGED request_id
         /\ set_result(loading_finished_future, event, rest)
    ELSE /\ UNCHANGED <<handlers, request_id, heap>>
         /\ tasks' = rest

_setup(h) ==
    add_handler(
        add_handler(
            add_handler(h, RequestWillBeSent, "_request_handler"),
            ResponseReceived, "_response_handler"),
        LoadingFinished, "_loading_finished_handler")

_teardown_KeepsLoadingFinished(h) ==
    _remove_response_handler(_remove_request_handler(h))

_teardown(h) ==
    _remove_loading_finished_handler(_remove_response_handler(_remove_request_handler(h)))

(* ---- the response_body coroutine (one caller) ---- *)
Idle == [pc |-> "idle", fut |-> 0, request_id |-> 0]

\* Connection.send: the frame is transmitted unless the session is closed.
send_get_response_body(rid) ==
    IF closed
    THEN /\ UNCHANGED sent
         /\ rb' = [pc |-> "failed", fut |-> 0, request_id |-> rid]
    ELSE /\ sent' = Append(sent, Cmd("Network.getResponseBody", rid, <<>>))
         /\ rb' = [pc |-> "await_reply", fut |-> 0, request_id |-> rid]

\* response_body after `await self.response_future` returned from future f:
\* take the request id of the response event, then await the loading-finished
\* future the attribute holds now, then send.
response_body_after_response(f) ==
    LET rid == heap[f].ev.request_id
        g == loading_finished_future
    IN  IF Pending(g)
        THEN /\ rb' = [pc |-> "await_loading", fut |-> g, request_id |-> rid]
             /\ UNCHANGED sent
        ELSE send_get_response_body(rid)

response_body_start ==
    IF Pending(response_future)
    THEN /\ rb' = [pc |-> "await_response", fut |-> response_future, request_id |-> 0]
         /\ UNCHANGED sent
    ELSE response_body_after_response(response_future)

response_body_resume ==
    IF rb.pc = "await_response"
    THEN response_body_after_response(rb.fut)
    ELSE send_get_response_body(rb.request_id)

(* ---- actions of the expectation ---- *)
\* async with tab.expect_request(...) / expect_response(...): __aenter__
Enter ==
    /\ scope = "new"
    /\ handlers' = _setup(handlers)
    /\ scope' = "entered"
    /\ UNCHANGED <<tasks, sent, closed, heap, url_pattern, request_future, response_future,
                   loading_finished_future, request_id, rb, stage, nResets>>
    /\ UNCHANGED <<downloadVars, fetchVars, keyVars, sendVars, registryVars, vw>>

\* __aexit__
Exit ==
    /\ scope = "entered"
    /\ handlers' = _teardown(handlers)
    /\ scope' = "exited"
    /\ UNCHANGED <<tasks, sent, closed, heap, url_pattern, request_future, response_future,
                   loading_finished_future, request_id, rb, stage, nResets>>
    /\ UNCHANGED <<downloadVars, fetchVars, keyVars, sendVars, registryVars, vw>>

\* _teardown performed once more after the scope exited
TeardownAgain ==
    /\ scope = "exited"
    /\ handlers' = _teardown(handlers)
    /\ UNCHANGED <<tasks, sent, closed, heap, url_pattern, request_future, response_future,
                   loading_finished_future, request_id, scope, rb, stage, nResets>>
    /\ UNCHANGED <<downloadVars, fetchVars, keyVars, sendVars, registryVars, vw>>

reset_KeepsRequestId ==
    /\ scope = "entered"
    /\ nResets < MaxResets
    /\ heap' = heap \o <<Future, Future, Future>>
    /\ request_future' = Len(heap) + 1
    /\ response_future' = Len(heap) + 2
    /\ loading_finished_future' = Len(heap) + 3
    /\ UNCHANGED request_id
    /\ handlers' = _setup(_teardown(handlers))
    /\ nResets' = nResets + 1
    /\ UNCHANGED <<tasks, sent, closed, url_pattern, scope, rb, stage>>
    /\ UNCHANGED <<downloadVars, fetchVars, keyVars, sendVars, registryVars, vw>>

reset ==
    /\ scope = "entered"
    /\ nResets < MaxResets
    /\ heap' = heap \o <<Future, Future, Future>>
    /\ request_future' = Len(heap) + 1
    /\ response_future' = Len(heap) + 2
    /\ loading_finished_future' = Len(heap) + 3
    /\ request_id' = None
    /\ handlers' = _setup(_teardown(handlers))
    /\ nResets' = nResets + 1
    /\ UNCHANGED <<tasks, sent, closed, url_pattern, scope, rb, stage>>
    /\ UNCHANGED <<downloadVars, fetchVars, keyVars, sendVars, registryVars, vw>>

Scheduled_LastFirst(ev) ==
    IF ev.type \in DOMAIN handlers
    THEN [i \in 1..Len(handlers[ev.type]) |->
            [h |-> handlers[ev.type][Len(handlers[ev.type]) + 1 - i], ev |-> ev]]
    ELSE <<>>

\* Connection: an event frame is received; every handler of its bucket is
\* invoked in registration order, an asynchronous one by scheduling it.
Scheduled(ev) ==
    IF ev.type \in DOMAIN handlers
    THEN [i \in 1..Len(handlers[ev.type]) |-> [h |-> handlers[ev.type][i], ev |-> ev]]
    ELSE <<>>

\* The browser emits, per request, requestWillBeSent, then responseReceived,
\* then loadingFinished; requests interleave freely.
Emitted(type) ==
    CASE type = RequestWillBeSent -> 0
      [] type = ResponseReceived -> 1
      [] type = LoadingFinished -> 2
      [] OTHER -> 0

Dispatch(ev) ==
    /\ ~closed
    /\ stage[ev.request_id] = Emitted(ev.type)
    /\ stage' = [stage EXCEPT ![ev.request_id] = @ + 1]
    /\ tasks' = tasks \o Scheduled(ev)
    /\ UNCHANGED <<handlers, sent, closed, heap, nResets, expectVars>>
    /\ UNCHANGED <<downloadVars, fetchVars, keyVars, sendVars, registryVars, vw>>

RunFrame == <<sent, closed, url_pattern, request_future, response_future,
              loading_finished_future, scope, rb, stage, nResets>>

RunRequestHandler ==
    /\ tasks # <<>>
    /\ Head(tasks).h = "_request_handler"
    /\ _request_handler(Head(tasks).ev, Tail(tasks))
    /\ UNCHANGED RunFrame
    /\ UNCHANGED <<downloadVars, fetchVars, keyVars, sendVars, registryVars, vw>>

RunResponseHandler ==
    /\ tasks # <<>>
    /\ Head(tasks).h = "_response_handler"
    /\ _response_handler(Head(tasks).ev, Tail(tasks))
    /\ UNCHANGED RunFrame
    /\ UNCHANGED <<downloadVars, fetchVars, keyVars, sendVars, registryVars, vw>>

RunLoadingFinishedHandler ==
    /\ tasks # <<>>
    /\ Head(tasks).h = "_loading_finished_handler"
    /\ _loading_finished_handler(Head(tasks).ev, Tail(tasks))
    /\ UNCHANGED RunFrame
    /\ UNCHANGED <<downloadVars, fetchVars, keyVars, sendVars, registryVars, vw>>

\* `await expectation.response_body` is called inside the scope
ResponseBodyCall ==
    /\ scope = "entered"
    /\ rb.pc = "idle"
    /\ response_body_start
    /\ UNCHANGED <<handlers, tasks, closed, heap, url_pattern, request_future, response_future,
                   loading_finished_future, request_id, scope, stage, nResets>>
    /\ UNCHANGED <<downloadVars, fetchVars, keyVars, sendVars, registryVars, vw>>

\* the suspended response_body is resumed by the event loop
ResponseBodyResume ==
    /\ tasks # <<>>
    /\ Head(tasks).h = "response_body"
    /\ tasks' = Tail(tasks)
    /\ response_body_resume
    /\ UNCHANGED <<handlers, closed, heap, url_pattern, request_future, response_future,
                   loading_finished_future, request_id, scope, stage, nResets>>
    /\ UNCHANGED <<downloadVars, fetchVars, keyVars, sendVars, registryVars, vw>>

\* the browser replies to Network.getResponseBody
ResponseBodyReply ==
    /\ rb.pc = "await_reply"
    /\ ~closed
    /\ rb' = [rb EXCEPT !.pc = "returned"]
    /\ UNCHANGED <<handlers, tasks, sent, closed, heap, url_pattern, request_future,
                   response_future, loading_finished_future, request_id, scope, stage,
                   nResets>>
    /\ UNCHANGED <<downloadVars, fetchVars, keyVars, sendVars, registryVars, vw>>

\* Session teardown: every command in flight completes with session-closed
\* and leaves the inflight map.
fail_all_inflight_Forgets ==
    /\ inflight' = << >>
    /\ UNCHANGED outcome

fail_all_inflight ==
    /\ outcome' = [i \in DOMAIN outcome \cup DOMAIN inflight |->
                      IF i \in DOMAIN inflight THEN "session-closed" ELSE outcome[i]]
    /\ inflight' = << >>

\* Connection: explicit close or transport drop; every command in flight
\* fails with session-closed, which is raised in the coroutine awaiting it.
\* Nothing in expect.py or intercept.py observes the close.
Close ==
    /\ ~closed
    /\ closed' = TRUE
    /\ rb' = IF rb.pc = "await_reply" THEN [rb EXCEPT !.pc = "failed"] ELSE rb
    /\ op' = IF op.pc = "await_reply" THEN [op EXCEPT !.pc = "failed"] ELSE op
    /\ dl' = CASE dl = "entering" -> "enter_failed"
               [] dl = "exiting" -> "exit_failed"
               [] OTHER -> dl
    /\ fi' = IF fi \in {"enabling", "disabling", "reset_disabling", "reset_enabling"}
             THEN "failed" ELSE fi
    /\ UNCHANGED <<handlers, tasks, sent, heap, stage, nResets, url_pattern, request_future,
                   response_future, loading_finished_future, request_id, scope,
                   _download_behavior, default_behavior, download_path, future,
                   entry_behavior, fetch_response_future, enabled_domains, nOps>>
    /\ fail_all_inflight
    /\ UNCHANGED <<keyVars, count, outbox, registryVars, vw>>

\* No command was sent on this Connection.
SendUnused ==
    /\ count = 0
    /\ inflight = << >>
    /\ outbox = <<>>
    /\ outcome = << >>

\* No handler was registered by the user and none has run.
NoCall == [op |-> "none", event_type |-> "", handler |-> "", err |-> "none"]
RegistryUnused ==
    /\ invoked = <<>>
    /\ calls = [n |-> 0, last |-> NoCall]

\* Nobody waits on expectation.value with a timeout.
WaitUnused == vw = [pc |-> "idle", fut |-> 0]

\* No key compiler call is under way.
KeysUnused ==
    /\ call = [fn |-> "none"]
    /\ result = [err |-> "not run", out |-> <<>>]
    /\ ke = [err |-> "no instance"]
    /\ second = [err |-> "not run", out |-> <<>>]

ExpectUnused ==
    /\ url_pattern = <<>>
    /\ request_future = 0
    /\ response_future = 0
    /\ loading_finished_future = 0
    /\ request_id = None
    /\ scope = "none"
    /\ rb = Idle

ConnectionInit ==
    /\ handlers = << >>
    /\ tasks = <<>>
    /\ sent = <<>>
    /\ closed = FALSE
    /\ stage = [i \in ReqIds |-> 0]
    /\ nResets = 0

\* No DownloadExpectation and no interception exist on this Connection.
DownloadUnused ==
    /\ _download_behavior = <<>>
    /\ default_behavior = "default"
    /\ download_path = "None"
    /\ future = 0
    /\ dl = "none"
    /\ entry_behavior = <<>>

FetchUnused ==
    /\ fetch_response_future = 0
    /\ enabled_domains = <<>>
    /\ fi = "none"
    /\ op = [pc |-> "idle", kind |-> "", fut |-> 0, request_id |-> 0]
    /\ nOps = 0

Init ==
    /\ ConnectionInit
    /\ heap = <<Future, Future, Future>>
    /\ url_pattern \in Patterns
    /\ request_future = 1
    /\ response_future = 2
    /\ loading_finished_future = 3
    /\ request_id = None
    /\ scope = "new"
    /\ rb = Idle
    /\ DownloadUnused
    /\ FetchUnused
    /\ KeysUnused
    /\ SendUnused
    /\ RegistryUnused
    /\ WaitUnused

Next ==
    \/ Enter
    \/ Exit
    \/ TeardownAgain
    \/ reset
    \/ \E ev \in NetworkEvents : Dispatch(ev)
    \/ RunRequestHandler
    \/ RunResponseHandler
    \/ RunLoadingFinishedHandler
    \/ ResponseBodyCall
    \/ ResponseBodyResume
    \/ ResponseBodyReply
    \/ Close

Spec == Init /\ [][Next]_vars

\* One scope without reset and with the Connection open, under the event
\* loop's scheduling: a scheduled handler invocation and a resumed caller are
\* run eventually (asyncio runs its ready queue in order and to the end).
NextFair ==
    \/ Enter
    \/ Exit
    \/ \E ev \in NetworkEvents : Dispatch(ev)
    \/ RunRequestHandler
    \/ RunResponseHandler
    \/ RunLoadingFinishedHandler
    \/ ResponseBodyCall
    \/ ResponseBodyResume
    \/ ResponseBodyReply

SpecFair ==
    /\ Init
    /\ [][NextFair]_vars
    /\ WF_vars(RunRequestHandler)
    /\ WF_vars(RunResponseHandler)
    /\ WF_vars(RunLoadingFinishedHandler)
    /\ WF_vars(ResponseBodyResume)

(* ========================= DownloadExpectation ========================= *)
\* The values Connection._download_behavior takes: unset, [behavior] or
\* [behavior, path].
DownloadBehaviors == {<<>>, <<"allow">>, <<"allow", "/p">>, <<"allowAndName", "/q">>}

set_download_behavior(behavior, path) ==
    Cmd("Browser.setDownloadBehavior", 0, <<behavior, path>>)

\* __init__: default_behavior and download_path as read from the Connection.
DefaultBehaviorOf(b) == IF b # <<>> THEN b[1] ELSE "default"
DownloadPathOf(b) == IF b # <<>> /\ Len(b) > 1 THEN b[2] ELSE "None"

_remove_handler(h) == remove_handlers(h, DownloadWillBegin, "_handler")

downloadFrame == <<nResets, stage, expectVars, fetchVars, keyVars, sendVars, registryVars, vw>>

\* The owner of the Connection changes its download behaviour (as
\* set_download_path does); the command this sends is not the scope's.
SetDownloadBehavior(b) ==
    /\ ~closed
    /\ b # _download_behavior
    /\ _download_behavior' = b
    /\ UNCHANGED <<handlers, tasks, sent, closed, heap, default_behavior, download_path,
                   future, dl, entry_behavior>>
    /\ UNCHANGED downloadFrame

\* DownloadExpectation.__init__
DownloadInit ==
    /\ dl = "none"
    /\ heap' = Append(heap, Future)
    /\ future' = Len(heap) + 1
    /\ default_behavior' = DefaultBehaviorOf(_download_behavior)
    /\ download_path' = DownloadPathOf(_download_behavior)
    /\ dl' = "constructed"
    /\ UNCHANGED <<handlers, tasks, sent, closed, _download_behavior, entry_behavior>>
    /\ UNCHANGED downloadFrame

\* __aenter__ up to its await: send setDownloadBehavior(deny)
DownloadEnter ==
    /\ dl = "constructed"
    /\ entry_behavior' = _download_behavior
    /\ IF closed
       THEN dl' = "enter_failed" /\ UNCHANGED sent
       ELSE dl' = "entering" /\ sent' = Append(sent, set_download_behavior("deny", "None"))
    /\ UNCHANGED <<handlers, tasks, closed, heap, _download_behavior, default_behavior,
                   download_path, future>>
    /\ UNCHANGED downloadFrame

\* __aenter__ after the reply: add the handler (an error reply is raised)
DownloadEnterReply(ok) ==
    /\ dl = "entering"
    /\ ~closed
    /\ IF ok
       THEN /\ handlers' = add_handler(handlers, DownloadWillBegin, "_handler")
            /\ dl' = "entered"
       ELSE /\ UNCHANGED handlers
            /\ dl' = "enter_failed"
    /\ UNCHANGED <<tasks, sent, closed, heap, _download_behavior, default_behavior,
                   download_path, future, entry_behavior>>
    /\ UNCHANGED downloadFrame

\* __aexit__ up to its await: send setDownloadBehavior(default_behavior, download_path)
DownloadExit ==
    /\ dl = "entered"
    /\ IF closed
       THEN dl' = "exit_failed" /\ UNCHANGED sent
       ELSE /\ dl' = "exiting"
            /\ sent' = Append(sent, set_download_behavior(default_behavior, download_path))
    /\ UNCHANGED <<handlers, tasks, closed, heap, _download_behavior, default_behavior,
                   download_path, future, entry_behavior>>
    /\ UNCHANGED downloadFrame

\* __aexit__ after the reply: remove the handler (an error reply is raised)
DownloadExitReply(ok) ==
    /\ dl = "exiting"
    /\ ~closed
    /\ IF ok
       THEN /\ handlers' = _remove_handler(handlers)
            /\ dl' = "exited"
       ELSE /\ UNCHANGED handlers
            /\ dl' = "exit_failed"
    /\ UNCHANGED <<tasks, sent, closed, heap, _download_behavior, default_behavior,
                   download_path, future, entry_behavior>>
    /\ UNCHANGED downloadFrame

\* DownloadExpectation._handler
_handler(event, rest) ==
    /\ handlers' = _remove_handler(handlers)
    /\ set_result(future, event, rest)

RunDownloadHandler ==
    /\ tasks # <<>>
    /\ Head(tasks).h = "_handler"
    /\ _handler(Head(tasks).ev, Tail(tasks))
    /\ UNCHANGED <<sent, closed, downloadVars>>
    /\ UNCHANGED downloadFrame

InitDownload ==
    /\ ConnectionInit
    /\ heap = <<>>
    /\ ExpectUnused
    /\ FetchUnused
    /\ KeysUnused
    /\ SendUnused
    /\ RegistryUnused
    /\ WaitUnused
    /\ _download_behavior \in DownloadBehaviors
    /\ default_behavior = "default"
    /\ download_path = "None"
    /\ future = 0
    /\ dl = "none"
    /\ entry_behavior = <<>>

NextDownload ==
    \/ \E b \in DownloadBehaviors : SetDownloadBehavior(b)
    \/ DownloadInit
    \/ DownloadEnter
    \/ \E ok \in BOOLEAN : DownloadEnterReply(ok)
    \/ DownloadExit
    \/ \E ok \in BOOLEAN : DownloadExitReply(ok)
    \/ \E ev \in DownloadEvents : Dispatch(ev)
    \/ RunDownloadHandler
    \/ Close

SpecDownload == InitDownload /\ [][NextDownload]_vars

(* ======================== BaseFetchInterception ======================== *)
MaxOps == 2         \* operations called on the interception in one behaviour

FetchOps == {"continue_request", "fail_request", "fulfill_request", "continue_response",
             "response_body"}

Method(kind) ==
    CASE kind = "continue_request" -> "Fetch.continueRequest"
      [] kind = "fail_request" -> "Fetch.failRequest"
      [] kind = "fulfill_request" -> "Fetch.fulfillRequest"
      [] kind = "continue_response" -> "Fetch.continueResponse"
      [] kind = "response_body" -> "Fetch.getResponseBody"

\* the one RequestPattern(url_pattern, request_stage, resource_type) of the scope
FetchPattern == <<"*/x.json", "Response", "XHR">>

fetch_remove_response_handler(h) == remove_handlers(h, RequestPaused, "fetch_response_handler")

fetchFrame == <<stage, expectVars, downloadVars, keyVars, sendVars, registryVars, vw>>

\* _setup up to its await: send Fetch.enable with the single pattern
fetch_setup_send(next) ==
    IF closed
    THEN fi' = "failed" /\ UNCHANGED sent
    ELSE fi' = next /\ sent' = Append(sent, Cmd("Fetch.enable", 0, <<FetchPattern>>))

\* _setup after the reply: record the domain, register the handler
fetch_setup_finish ==
    /\ enabled_domains' = Append(enabled_domains, "Fetch")
    /\ handlers' = add_handler(handlers, RequestPaused, "fetch_response_handler")
    /\ fi' = "entered"

fetch_teardown_send_KeepsHandler(next) ==
    /\ UNCHANGED handlers
    /\ IF closed
       THEN fi' = "failed" /\ UNCHANGED sent
       ELSE fi' = next /\ sent' = Append(sent, Cmd("Fetch.disable", 0, <<>>))

\* _teardown up to its await: detach the handler, send Fetch.disable
fetch_teardown_send(next) ==
    /\ handlers' = fetch_remove_response_handler(handlers)
    /\ IF closed
       THEN fi' = "failed" /\ UNCHANGED sent
       ELSE fi' = next /\ sent' = Append(sent, Cmd("Fetch.disable", 0, <<>>))

FetchEnter_RegistersEarly ==
    /\ fi = "new"
    /\ fetch_setup_send("enabling")
    /\ handlers' = add_handler(handlers, RequestPaused, "fetch_response_handler")
    /\ UNCHANGED <<tasks, closed, heap, nResets, fetch_response_future,
                   enabled_domains, op, nOps>>
    /\ UNCHANGED fetchFrame

\* __aenter__
FetchEnter ==
    /\ fi = "new"
    /\ fetch_setup_send("enabling")
    /\ UNCHANGED <<handlers, tasks, closed, heap, nResets, fetch_response_future,
                   enabled_domains, op, nOps>>
    /\ UNCHANGED fetchFrame

\* the browser acknowledges Fetch.enable: _setup continues
FetchEnableReply ==
    /\ fi \in {"enabling", "reset_enabling"}
    /\ ~closed
    /\ fetch_setup_finish
    /\ UNCHANGED <<tasks, sent, closed, heap, nResets, fetch_response_future, op, nOps>>
    /\ UNCHANGED fetchFrame

\* __aexit__
FetchExit ==
    /\ fi = "entered"
    /\ fetch_teardown_send("disabling")
    /\ UNCHANGED <<tasks, closed, heap, nResets, fetch_response_future, enabled_domains,
                   op, nOps>>
    /\ UNCHANGED fetchFrame

\* reset() up to its first await: a new future, then _teardown
fetch_reset ==
    /\ fi = "entered"
    /\ nResets < MaxResets
    /\ heap' = Append(heap, Future)
    /\ fetch_response_future' = Len(heap) + 1
    /\ fetch_teardown_send("reset_disabling")
    /\ nResets' = nResets + 1
    /\ UNCHANGED <<tasks, closed, enabled_domains, op, nOps>>
    /\ UNCHANGED fetchFrame

\* the browser acknowledges Fetch.disable: __aexit__ returns, reset() goes on to _setup
FetchDisableReply ==
    /\ fi \in {"disabling", "reset_disabling"}
    /\ ~closed
    /\ IF fi = "disabling"
       THEN fi' = "exited" /\ UNCHANGED sent
       ELSE fetch_setup_send("reset_enabling")
    /\ UNCHANGED <<handlers, tasks, closed, heap, nResets, fetch_response_future,
                   enabled_domains, op, nOps>>
    /\ UNCHANGED fetchFrame

\* BaseFetchInterception._response_handler
fetch_response_handler(event, rest) ==
    /\ handlers' = fetch_remove_response_handler(handlers)
    /\ set_result(fetch_response_future, event, rest)

RunFetchHandler ==
    /\ tasks # <<>>
    /\ Head(tasks).h = "fetch_response_handler"
    /\ fetch_response_handler(Head(tasks).ev, Tail(tasks))
    /\ UNCHANGED <<sent, closed, nResets, fetchVars>>
    /\ UNCHANGED fetchFrame

\* an operation after `await self.response_future` returned from future f:
\* send its command with the paused event's request id
operation_send(kind, f) ==
    IF closed
    THEN /\ op' = [pc |-> "failed", kind |-> kind, fut |-> f, request_id |-> 0]
         /\ UNCHANGED sent
    ELSE /\ sent' = Append(sent, Cmd(Method(kind), heap[f].ev.request_id, <<>>))
         /\ op' = [pc |-> "await_reply", kind |-> kind, fut |-> f,
                   request_id |-> heap[f].ev.request_id]

\* continue_request, fail_request, fulfill_request, continue_response,
\* response_body: `request_id = (await self.response_future).request_id`, then send
operation_call_NoAwait(kind) ==
    operation_send(kind, fetch_response_future)

operation_call(kind) ==
    IF Pending(fetch_response_future)
    THEN /\ op' = [pc |-> "await_paused", kind |-> kind, fut |-> fetch_response_future,
                   request_id |-> 0]
         /\ UNCHANGED sent
    ELSE operation_send(kind, fetch_response_future)

OperationCall(kind) ==
    /\ fi \in {"entered", "reset_disabling", "reset_enabling"}
    /\ op.pc = "idle"
    /\ nOps < MaxOps
    /\ nOps' = nOps + 1
    /\ operation_call(kind)
    /\ UNCHANGED <<handlers, tasks, closed, heap, nResets, fetch_response_future,
                   enabled_domains, fi>>
    /\ UNCHANGED fetchFrame

\* the suspended operation is resumed by the event loop
OperationResume ==
    /\ tasks # <<>>
    /\ Head(tasks).h = "operation"
    /\ tasks' = Tail(tasks)
    /\ operation_send(op.kind, op.fut)
    /\ UNCHANGED <<handlers, closed, heap, nResets, fetch_response_future, enabled_domains,
                   fi, nOps>>
    /\ UNCHANGED fetchFrame

\* the browser replies to the operation's command: the operation returns
OperationReply ==
    /\ op.pc = "await_reply"
    /\ ~closed
    /\ op' = [pc |-> "idle", kind |-> "", fut |-> 0, request_id |-> 0]
    /\ UNCHANGED <<handlers, tasks, sent, closed, heap, nResets, fetch_response_future,
                   enabled_domains, fi, nOps>>
    /\ UNCHANGED fetchFrame

InitFetch ==
    /\ ConnectionInit
    /\ heap = <<Future>>
    /\ ExpectUnused
    /\ DownloadUnused
    /\ KeysUnused
    /\ SendUnused
    /\ RegistryUnused
    /\ WaitUnused
    /\ fetch_response_future = 1
    /\ enabled_domains = <<>>
    /\ fi = "new"
    /\ op = [pc |-> "idle", kind |-> "", fut |-> 0, request_id |-> 0]
    /\ nOps = 0

NextFetch ==
    \/ FetchEnter
    \/ FetchEnableReply
    \/ FetchExit
    \/ fetch_reset
    \/ FetchDisableReply
    \/ \E ev \in FetchEvents : Dispatch(ev)
    \/ RunFetchHandler
    \/ \E kind \in FetchOps : OperationCall(kind)
    \/ OperationResume
    \/ OperationReply
    \/ Close

SpecFetch == InitFetch /\ [][NextFetch]_vars

(* ===================== keys.py: the key-event compiler ================= *)
\* A Python str is the sequence of its code points, each written as one TLA+
\* string; a SpecialKeys member is tagged "special" and carries its name.
\* Code points that have no plain spelling are written by name: "LF", "CR",
\* "HT" (\n, \r, \t), "BACKSLASH", "BACKQUOTE", "QUOTE", "DQUOTE", "e-acute", and the parts of emoji.
Str(s) == [t |-> "str", v |-> s]
Special(name) == [t |-> "special", v |-> <<name>>]
isinstance_str(key) == key.t = "str"

\* KeyModifiers
Default == 0
Alt == 1
Ctrl == 2
Meta == 4
Shift == 8

Bit(m, b) == (m \div b) % 2 = 1
BitOr(m, b) == IF Bit(m, b) THEN m ELSE m + b
BitClear(m, b) == IF Bit(m, b) THEN m - b ELSE m

\* SpecialKeys: name -> value (key name, key code)
SpecialKeyNames == {"SPACE", "ENTER", "TAB", "BACKSPACE", "ESCAPE", "DELETE", "ARROW_LEFT",
                    "ARROW_UP", "ARROW_RIGHT", "ARROW_DOWN", "SHIFT", "ALT", "CTRL", "META"}

SpecialKeyValue(name) ==
    CASE name = "SPACE" -> [name |-> <<" ">>, code |-> 32]
      [] name = "ENTER" -> [name |-> <<"Enter">>, code |-> 13]
      [] name = "TAB" -> [name |-> <<"Tab">>, code |-> 9]
      [] name = "BACKSPACE" -> [name |-> <<"Backspace">>, code |-> 8]
      [] name = "ESCAPE" -> [name |-> <<"Escape">>, code |-> 27]
      [] name = "DELETE" -> [name |-> <<"Delete">>, code |-> 46]
      [] name = "ARROW_LEFT" -> [name |-> <<"ArrowLeft">>, code |-> 37]
      [] name = "ARROW_UP" -> [name |-> <<"ArrowUp">>, code |-> 38]
      [] name = "ARROW_RIGHT" -> [name |-> <<"ArrowRight">>, code |-> 39]
      [] name = "ARROW_DOWN" -> [name |-> <<"ArrowDown">>, code |-> 40]
      [] name = "SHIFT" -> [name |-> <<"Shift">>, code |-> 16]
      [] name = "ALT" -> [name |-> <<"Alt">>, code |-> 18]
      [] name = "CTRL" -> [name |-> <<"Control">>, code |-> 17]
      [] name = "META" -> [name |-> <<"Meta">>, code |-> 91]

\* KeyPressEvent
KEY_DOWN == "keyDown"
KEY_UP == "keyUp"
RAW_KEY_DOWN == "rawKeyDown"
CHAR == "char"
DOWN_AND_UP == "downAndUp"
KeyPressEvent == {KEY_DOWN, KEY_UP, RAW_KEY_DOWN, CHAR, DOWN_AND_UP}

\* code points
Lower == <<"a", "b", "c", "d", "e", "f", "g", "h", "i", "j", "k", "l", "m",
           "n", "o", "p", "q", "r", "s", "t", "u", "v", "w", "x", "y", "z">>
Upper == <<"A", "B", "C", "D", "E", "F", "G", "H", "I", "J", "K", "L", "M",
           "N", "O", "P", "Q", "R", "S", "T", "U", "V", "W", "X", "Y", "Z">>
Digits == <<"0", "1", "2", "3", "4", "5", "6", "7", "8", "9">>
NUM_SHIFT == <<")", "!", "@", "#", "$", "%", "^", "&", "*", "(">>
Range(s) == {s[i] : i \in 1..Len(s)}
IndexIn(s, c) == CHOOSE i \in 1..Len(s) : s[i] = c

SPECIAL_CHAR_MAP ==
    [c \in {";", "=", ",", "-", ".", "/", "BACKQUOTE", "[", "BACKSLASH", "]", "QUOTE"} |->
        CASE c = ";" -> [code |-> <<"Semicolon">>, keyCode |-> 186]
          [] c = "=" -> [code |-> <<"Equal">>, keyCode |-> 187]
          [] c = "," -> [code |-> <<"Comma">>, keyCode |-> 188]
          [] c = "-" -> [code |-> <<"Minus">>, keyCode |-> 189]
          [] c = "." -> [code |-> <<"Period">>, keyCode |-> 190]
          [] c = "/" -> [code |-> <<"Slash">>, keyCode |-> 191]
          [] c = "BACKQUOTE" -> [code |-> <<"Backquote">>, keyCode |-> 192]
          [] c = "[" -> [code |-> <<"BracketLeft">>, keyCode |-> 219]
          [] c = "BACKSLASH" -> [code |-> <<"Backslash">>, keyCode |-> 220]
          [] c = "]" -> [code |-> <<"BracketRight">>, keyCode |-> 221]
          [] c = "QUOTE" -> [code |-> <<"Quote">>, keyCode |-> 222]]

SPECIAL_CHAR_SHIFT_MAP ==
    [c \in {":", "+", "<", "_", ">", "?", "~", "{", "|", "}", "DQUOTE"} |->
        CASE c = ":" -> ";"
          [] c = "+" -> "="
          [] c = "<" -> ","
          [] c = "_" -> "-"
          [] c = ">" -> "."
          [] c = "?" -> "/"
          [] c = "~" -> "BACKQUOTE"
          [] c = "{" -> "["
          [] c = "|" -> "BACKSLASH"
          [] c = "}" -> "]"
          [] c = "DQUOTE" -> "QUOTE"]

SPECIAL_CHAR_REVERSE_MAP ==
    [v \in {SPECIAL_CHAR_SHIFT_MAP[k] : k \in DOMAIN SPECIAL_CHAR_SHIFT_MAP} |->
        CHOOSE k \in DOMAIN SPECIAL_CHAR_SHIFT_MAP : SPECIAL_CHAR_SHIFT_MAP[k] = v]

MODIFIER_KEYS == {Special("SHIFT"), Special("ALT"), Special("CTRL"), Special("META")}

SPECIAL_KEY_CHAR_MAP ==
    [k \in {"SPACE", "ENTER", "TAB"} |->
        CASE k = "SPACE" -> <<" ">> [] k = "ENTER" -> <<"CR">> [] k = "TAB" -> <<"HT">>]

\* code points outside ASCII used as inputs: a letter, a decimal digit (ARABIC-INDIC
\* DIGIT THREE), a combining mark, and the parts of emoji
NonAsciiLetters == {"e-acute"}
NonAsciiDigits == {"ARABIC_THREE"}
Pictographs == {"THUMBS_UP", "MAN", "WOMAN"}
Extenders == {"SKIN_TONE", "ZWJ", "VS16", "COMBINING_ACUTE"}
Whitespace == {" ", "LF", "CR", "HT"}
Ascii == Range(Lower) \cup Range(Upper) \cup Range(Digits) \cup Range(NUM_SHIFT)
         \cup (DOMAIN SPECIAL_CHAR_MAP) \cup (DOMAIN SPECIAL_CHAR_SHIFT_MAP) \cup Whitespace
Printable == Ascii \ {"LF", "CR", "HT"}

\* str methods
isalpha(s) == s # <<>> /\ \A i \in 1..Len(s) : s[i] \in Range(Lower) \cup Range(Upper) \cup NonAsciiLetters
isascii(s) == \A i \in 1..Len(s) : s[i] \in Ascii
isdigit(s) == s # <<>> /\ \A i \in 1..Len(s) : s[i] \in Range(Digits) \cup NonAsciiDigits
isupper(s) == /\ \E i \in 1..Len(s) : s[i] \in Range(Upper)
              /\ \A i \in 1..Len(s) : s[i] \notin Range(Lower) \cup NonAsciiLetters
upper(s) == [i \in 1..Len(s) |-> IF s[i] \in Range(Lower) THEN Upper[IndexIn(Lower, s[i])] ELSE s[i]]
lower_Identity(s) == s
lower(s) == [i \in 1..Len(s) |-> IF s[i] \in Range(Upper) THEN Lower[IndexIn(Upper, s[i])] ELSE s[i]]
\* `k in s` for strings: k occurs in s as a substring
Contains(s, k) == \E i \in 0..(Len(s) - Len(k)) : SubSeq(s, i + 1, i + Len(k)) = k
\* s.index(k), counted from 0
index(s, k) ==
    CHOOSE i \in 0..(Len(s) - Len(k)) :
        /\ SubSeq(s, i + 1, i + Len(k)) = k
        /\ \A j \in 0..(i - 1) : SubSeq(s, j + 1, j + Len(k)) # k
\* ord(c) of an uppercase letter or a digit
ord(c) ==
    IF c \in Range(Upper) THEN 64 + IndexIn(Upper, c)
    ELSE IF c = "ARABIC_THREE" THEN 1635
    ELSE 47 + IndexIn(Digits, c)
\* int(c) of a digit
int(c) == IF c = "ARABIC_THREE" THEN 3 ELSE IndexIn(Digits, c) - 1

\* emoji.is_emoji(s): s is one emoji of the emoji table
Emoji == {<<"THUMBS_UP">>, <<"THUMBS_UP", "SKIN_TONE">>, <<"MAN", "ZWJ", "WOMAN">>}
is_emoji(s) == s \in Emoji

\* KeyEvents.is_english_alphabet: "True", "False", or the error it raises
is_english_alphabet(char) ==
    IF isalpha(char) /\ isascii(char)
    THEN IF Len(char) # 1 THEN "ValueError" ELSE "True"
    ELSE "False"

\* KeyEvents._handle_string_key_lookup: (code, keyCode) or the error raised
Lookup(code, keyCode) == [err |-> "none", code |-> code, keyCode |-> keyCode]
LookupRaises(e) == [err |-> e, code |-> <<>>, keyCode |-> None]
NoneStr == <<"None">>

_handle_string_key_lookup(key) ==
    LET alpha == is_english_alphabet(key)
        digit == IF Contains(NUM_SHIFT, key) THEN <<Digits[index(NUM_SHIFT, key) + 1]>> ELSE key
    IN  CASE alpha = "ValueError" -> LookupRaises("ValueError")
          [] alpha = "True" -> Lookup(<<"Key">> \o upper(key), ord(upper(key)[1]))
          [] OTHER ->
             IF isdigit(key) \/ Contains(NUM_SHIFT, key)
             THEN IF Len(digit) # 1 THEN LookupRaises("TypeError")
                  ELSE Lookup(<<"Digit">> \o digit, ord(digit[1]))
             ELSE IF Contains(<<"LF", "CR">>, key)
             THEN Lookup(SpecialKeyValue("ENTER").name, SpecialKeyValue("ENTER").code)
             ELSE IF key = <<"HT">>
             THEN Lookup(SpecialKeyValue("TAB").name, SpecialKeyValue("TAB").code)
             ELSE IF key = <<" ">>
             THEN Lookup(SpecialKeyValue("SPACE").name, SpecialKeyValue("SPACE").code)
             ELSE IF Len(key) = 1 /\ key[1] \in DOMAIN SPECIAL_CHAR_MAP
             THEN Lookup(SPECIAL_CHAR_MAP[key[1]].code, SPECIAL_CHAR_MAP[key[1]].keyCode)
             ELSE IF Len(key) = 1 /\ key[1] \in DOMAIN SPECIAL_CHAR_SHIFT_MAP
             THEN Lookup(SPECIAL_CHAR_MAP[SPECIAL_CHAR_SHIFT_MAP[key[1]]].code,
                         SPECIAL_CHAR_MAP[SPECIAL_CHAR_SHIFT_MAP[key[1]]].keyCode)
             ELSE Lookup(NoneStr, None)

\* KeyEvents._handle_special_key_lookup
_handle_special_key_lookup(key) ==
    IF key \in MODIFIER_KEYS
    THEN Lookup(SpecialKeyValue(key.v[1]).name \o <<"Left">>, SpecialKeyValue(key.v[1]).code)
    ELSE Lookup(SpecialKeyValue(key.v[1]).name, SpecialKeyValue(key.v[1]).code)

\* KeyEvents.__init__: the object, or the error the constructor raises
KeyEvents(key, modifiers) ==
    LET l == IF isinstance_str(key) THEN _handle_string_key_lookup(key.v)
             ELSE _handle_special_key_lookup(key)
    IN  [err |-> l.err, key |-> key, modifiers |-> modifiers, code |-> l.code,
         keyCode |-> l.keyCode]

\* The outcome of a call: the value returned, or the exception raised.
Returns(out) == [err |-> "none", out |-> out]
Raises(e) == [err |-> e, out |-> <<>>]

_normalise_key_NoShift(key, modifiers) ==
    [err |-> "none", key |-> key, modifiers |-> modifiers]

\* KeyEvents._normalise_key: (key, modifiers), or the error raised
_normalise_key(key, modifiers) ==
    IF ~isinstance_str(key) THEN [err |-> "none", key |-> key, modifiers |-> modifiers]
    ELSE
    LET k == key.v
        shifted == BitOr(modifiers, Shift)
        norm(lowercase_key) ==
            IF shifted # BitOr(Default, Shift)
            THEN [err |-> "ValueError", key |-> key, modifiers |-> modifiers]
            ELSE [err |-> "none", key |-> Str(lowercase_key), modifiers |-> shifted]
    IN  IF Contains(NUM_SHIFT, k) THEN norm(<<Digits[index(NUM_SHIFT, k) + 1]>>)
        ELSE IF Len(k) = 1 /\ k[1] \in DOMAIN SPECIAL_CHAR_SHIFT_MAP
        THEN norm(<<SPECIAL_CHAR_SHIFT_MAP[k[1]]>>)
        ELSE IF is_english_alphabet(k) = "ValueError"
        THEN [err |-> "ValueError", key |-> key, modifiers |-> modifiers]
        ELSE IF is_english_alphabet(k) = "True" /\ isupper(k) THEN norm(lower(k))
        ELSE IF Contains(<<"LF", "CR">>, k)
        THEN [err |-> "none", key |-> Special("ENTER"), modifiers |-> modifiers]
        ELSE IF k = <<"HT">>
        THEN [err |-> "none", key |-> Special("TAB"), modifiers |-> modifiers]
        ELSE IF k = <<" ">>
        THEN [err |-> "none", key |-> Special("SPACE"), modifiers |-> modifiers]
        ELSE [err |-> "none", key |-> key, modifiers |-> modifiers]

\* KeyEvents._handle_printable_char: (key, text), or the error raised
KeyText(key, text) == [err |-> "none", key |-> key, text |-> text]
KeyTextRaises(e) == [err |-> e, key |-> NoneStr, text |-> NoneStr]

_handle_printable_char(key, modifiers) ==
    IF modifiers # Shift THEN KeyText(key, key)
    ELSE IF is_english_alphabet(key) = "ValueError" THEN KeyTextRaises("ValueError")
    ELSE IF is_english_alphabet(key) = "True" THEN KeyText(upper(key), upper(key))
    ELSE IF isdigit(key)
    THEN IF Len(key) # 1 THEN KeyTextRaises("IndexError")
         ELSE KeyText(<<NUM_SHIFT[int(key[1]) + 1]>>, <<NUM_SHIFT[int(key[1]) + 1]>>)
    ELSE IF Len(key) = 1 /\ key[1] \in DOMAIN SPECIAL_CHAR_REVERSE_MAP
    THEN KeyText(<<SPECIAL_CHAR_REVERSE_MAP[key[1]]>>, <<SPECIAL_CHAR_REVERSE_MAP[key[1]]>>)
    ELSE KeyTextRaises("KeyError")

\* KeyEvents._build_action_data
_build_action_data(self, modifiers) ==
    IF isinstance_str(self.key) THEN _handle_printable_char(self.key.v, modifiers)
    ELSE IF self.key.v[1] \in DOMAIN SPECIAL_KEY_CHAR_MAP
    THEN KeyText(SPECIAL_KEY_CHAR_MAP[self.key.v[1]], SPECIAL_KEY_CHAR_MAP[self.key.v[1]])
    ELSE KeyText(SpecialKeyValue(self.key.v[1]).name, NoneStr)

conv_to_str_OnlySpace(specialKey_key) ==
    IF specialKey_key = Special("SPACE") THEN KeyText(<<" ">>, <<" ">>)
    ELSE KeyTextRaises("ValueError")

\* KeyEvents.conv_to_str
conv_to_str(specialKey_key) ==
    CASE specialKey_key = Special("SPACE") -> KeyText(<<" ">>, <<" ">>)
      [] specialKey_key = Special("ENTER") -> KeyText(<<"LF">>, <<"LF">>)
      [] specialKey_key = Special("TAB") -> KeyText(<<"HT">>, <<"HT">>)
      [] OTHER -> KeyTextRaises("ValueError")

\* KeyEvents._get_key_and_text
_get_key_and_text(self, key_press_event, modifiers) ==
    IF key_press_event = CHAR
    THEN IF isinstance_str(self.key) THEN KeyText(self.key.v, self.key.v)
         ELSE conv_to_str(self.key)
    ELSE _build_action_data(self, modifiers)

Payload(type_, modifiers, text, key, code, keyCode) ==
    [type_ |-> type_, modifiers |-> modifiers, text |-> text, key |-> key, code |-> code,
     windows_virtual_key_code |-> keyCode, native_virtual_key_code |-> keyCode]

_to_basic_event_AlwaysDown(self, key_press_event, modifiers) ==
    LET kt == _get_key_and_text(self, key_press_event, modifiers)
    IN  IF kt.err # "none" THEN Raises(kt.err)
        ELSE IF key_press_event = CHAR
        THEN Returns(<<Payload(key_press_event, modifiers, kt.text, NoneStr, NoneStr, None)>>)
        ELSE Returns(<<Payload(KEY_DOWN, modifiers, kt.text, kt.key, self.code,
                               self.keyCode)>>)

\* KeyEvents._to_basic_event: one payload (a one-element list), or the error raised
_to_basic_event(self, key_press_event, modifiers) ==
    LET kt == _get_key_and_text(self, key_press_event, modifiers)
    IN  IF kt.err # "none" THEN Raises(kt.err)
        ELSE IF key_press_event = CHAR
        THEN Returns(<<Payload(key_press_event, modifiers, kt.text, NoneStr, NoneStr, None)>>)
        ELSE Returns(<<Payload(key_press_event, modifiers, kt.text, kt.key, self.code,
                               self.keyCode)>>)

\* the modifiers in the order Alt, Ctrl, Meta, Shift
ModifierOrder == <<[key |-> "ALT", flag |-> Alt], [key |-> "CTRL", flag |-> Ctrl],
                   [key |-> "META", flag |-> Meta], [key |-> "SHIFT", flag |-> Shift]>>

_decompose_modifiers_NoMeta(modifiers) ==
    SelectSeq(ModifierOrder, LAMBDA m : m.flag # Meta /\ Bit(modifiers, m.flag))

\* KeyEvents._decompose_modifiers: the active modifiers, in that order
_decompose_modifiers(modifiers) ==
    SelectSeq(ModifierOrder, LAMBDA m : Bit(modifiers, m.flag))

\* the running mask after the first k modifier keys went down, and after the
\* first k went up again
RECURSIVE MaskDown(_, _)
MaskDown(modifier_events, k) ==
    IF k = 0 THEN 0 ELSE BitOr(MaskDown(modifier_events, k - 1), modifier_events[k].flag)

RECURSIVE MaskUp(_, _)
MaskUp(modifier_events, k) ==
    IF k = 0 THEN MaskDown(modifier_events, Len(modifier_events))
    ELSE BitClear(MaskUp(modifier_events, k - 1), modifier_events[k].flag)

to_down_up_sequence_ReversedUps(self, modifiers) ==
    LET modifier_events == _decompose_modifiers(modifiers)
        n == Len(modifier_events)
        is_modifier_key == \E i \in 1..n : Special(modifier_events[i].key) = self.key
        ModifierKey(i) == KeyEvents(Special(modifier_events[i].key), Default)
        downs == [i \in 1..n |->
                    _to_basic_event(ModifierKey(i), KEY_DOWN, MaskDown(modifier_events, i)).out[1]]
        ups == [i \in 1..n |->
                    _to_basic_event(ModifierKey(n + 1 - i), KEY_UP,
                                    MaskUp(modifier_events, i)).out[1]]
        main_down == _to_basic_event(self, KEY_DOWN, MaskDown(modifier_events, n))
        main_up == _to_basic_event(self, KEY_UP, MaskUp(modifier_events, n))
    IN  IF modifiers # Default /\ n = 0 THEN Raises("ValueError")
        ELSE IF is_modifier_key THEN Returns(downs \o ups)
        ELSE IF main_down.err # "none" THEN Raises(main_down.err)
        ELSE IF main_up.err # "none" THEN Raises(main_up.err)
        ELSE Returns(downs \o main_down.out \o ups \o main_up.out)

\* KeyEvents.to_down_up_sequence
to_down_up_sequence(self, modifiers) ==
    LET modifier_events == _decompose_modifiers(modifiers)
        n == Len(modifier_events)
        is_modifier_key == \E i \in 1..n : Special(modifier_events[i].key) = self.key
        ModifierKey(i) == KeyEvents(Special(modifier_events[i].key), Default)
        downs == [i \in 1..n |->
                    _to_basic_event(ModifierKey(i), KEY_DOWN, MaskDown(modifier_events, i)).out[1]]
        ups == [i \in 1..n |->
                    _to_basic_event(ModifierKey(i), KEY_UP, MaskUp(modifier_events, i)).out[1]]
        main_down == _to_basic_event(self, KEY_DOWN, MaskDown(modifier_events, n))
        main_up == _to_basic_event(self, KEY_UP, MaskUp(modifier_events, n))
    IN  IF modifiers # Default /\ n = 0 THEN Raises("ValueError")
        ELSE IF is_modifier_key THEN Returns(downs \o ups)
        ELSE IF main_down.err # "none" THEN Raises(main_down.err)
        ELSE IF main_up.err # "none" THEN Raises(main_up.err)
        ELSE Returns(downs \o main_down.out \o ups \o main_up.out)

to_cdp_events_KeyUpAllowed(self, requested) ==
    LET key_press_event ==
            IF isinstance_str(self.key) /\ (is_emoji(self.key.v) \/ self.keyCode = None)
            THEN CHAR ELSE requested
        n == _normalise_key(self.key, self.modifiers)
    IN  CASE key_press_event \in {KEY_DOWN, RAW_KEY_DOWN} -> Raises("NotImplementedError")
          [] key_press_event = CHAR ->
                IF ~isinstance_str(self.key) /\ self.key.v[1] \notin DOMAIN SPECIAL_KEY_CHAR_MAP
                THEN Raises("ValueError")
                ELSE _to_basic_event(self, key_press_event, Default)
          [] key_press_event = DOWN_AND_UP ->
                IF n.err # "none" THEN Raises(n.err)
                ELSE to_down_up_sequence([self EXCEPT !.key = n.key], n.modifiers)
          [] OTHER -> Raises("ValueError")

\* KeyEvents.to_cdp_events (override_modifiers left at its default None)
to_cdp_events(self, requested) ==
    LET key_press_event ==
            IF isinstance_str(self.key) /\ (is_emoji(self.key.v) \/ self.keyCode = None)
            THEN CHAR ELSE requested
        n == _normalise_key(self.key, self.modifiers)
    IN  CASE key_press_event \in {KEY_DOWN, RAW_KEY_DOWN, KEY_UP} -> Raises("NotImplementedError")
          [] key_press_event = CHAR ->
                IF ~isinstance_str(self.key) /\ self.key.v[1] \notin DOMAIN SPECIAL_KEY_CHAR_MAP
                THEN Raises("ValueError")
                ELSE _to_basic_event(self, key_press_event, Default)
          [] key_press_event = DOWN_AND_UP ->
                IF n.err # "none" THEN Raises(n.err)
                ELSE to_down_up_sequence([self EXCEPT !.key = n.key], n.modifiers)
          [] OTHER -> Raises("ValueError")

\* KeyEvents.to_cdp_events, its effect on the instance: _get_key_and_text
\* stores the text of a special key in self.key (CHAR), and the normalised
\* key is stored in self.key before the expansion (DOWN_AND_UP).
to_cdp_events_self(self, requested) ==
    LET key_press_event ==
            IF isinstance_str(self.key) /\ (is_emoji(self.key.v) \/ self.keyCode = None)
            THEN CHAR ELSE requested
        n == _normalise_key(self.key, self.modifiers)
    IN  CASE key_press_event = CHAR /\ ~isinstance_str(self.key)
                  /\ self.key.v[1] \in DOMAIN SPECIAL_KEY_CHAR_MAP ->
                [self EXCEPT !.key = Str(conv_to_str(self.key).text)]
          [] key_press_event = DOWN_AND_UP /\ n.err = "none" ->
                [self EXCEPT !.key = n.key]
          [] OTHER -> self

\* KeyEvents(key, modifiers).to_cdp_events(key_press_event)
compile(key, modifiers, key_press_event) ==
    LET self == KeyEvents(key, modifiers)
    IN  IF self.err # "none" THEN Raises(self.err) ELSE to_cdp_events(self, key_press_event)

\* grapheme.graphemes(text): the extended grapheme clusters of text. A cluster
\* goes on over extending code points (skin tone, variation selector, ZWJ),
\* over a pictograph that follows a ZWJ inside an emoji, and over CR LF.
RECURSIVE ClusterLen(_, _)
ClusterLen(text, n) ==
    IF n >= Len(text) THEN n
    ELSE IF \/ (text[n + 1] \in Extenders /\ text[1] \notin {"LF", "CR", "HT"})
            \/ (text[n] = "ZWJ" /\ text[n + 1] \in Pictographs /\ text[1] \in Pictographs)
            \/ (n = 1 /\ text[1] = "CR" /\ text[2] = "LF")
         THEN ClusterLen(text, n + 1)
         ELSE n

RECURSIVE graphemes(_)
graphemes(text) ==
    IF text = <<>> THEN <<>>
    ELSE <<SubSeq(text, 1, ClusterLen(text, 1))>>
         \o graphemes(SubSeq(text, ClusterLen(text, 1) + 1, Len(text)))

\* one round of the loop of from_text: the payloads of one grapheme
from_grapheme(grapheme_char, ascii_keypress) ==
    LET key == CASE grapheme_char \in {<<"LF">>, <<"CR">>} -> Special("ENTER")
                 [] grapheme_char = <<"HT">> -> Special("TAB")
                 [] grapheme_char = <<" ">> -> Special("SPACE")
                 [] OTHER -> Str(grapheme_char)
    IN  compile(key, Default, IF is_emoji(grapheme_char) THEN CHAR ELSE ascii_keypress)

\* extend all_payload by the payloads of each round in turn; an error ends the call
RECURSIVE Extend(_, _)
Extend(all_payload, rounds) ==
    IF rounds = <<>> THEN Returns(all_payload)
    ELSE IF Head(rounds).err # "none" THEN Raises(Head(rounds).err)
    ELSE Extend(all_payload \o Head(rounds).out, Tail(rounds))

from_text_PerCodePoint(text, ascii_keypress) ==
    Extend(<<>>, [i \in 1..Len(text) |-> from_grapheme(<<text[i]>>, ascii_keypress)])

\* KeyEvents.from_text
from_text(text, ascii_keypress) ==
    LET gs == graphemes(text)
    IN  Extend(<<>>, [i \in 1..Len(gs) |-> from_grapheme(gs[i], ascii_keypress)])

\* one round of the loop of from_mixed_input
from_item(item, ascii_keypress) ==
    CASE item.t = "str" -> from_text(item.v, ascii_keypress)
      [] item.t = "special" -> compile(item, Default, DOWN_AND_UP)
      [] item.t = "tuple" -> compile(item.key, item.modifiers, DOWN_AND_UP)
      [] OTHER -> Raises("ValueError")

\* KeyEvents.from_mixed_input
from_mixed_input(input_sequence, ascii_keypress) ==
    Extend(<<>>, [i \in 1..Len(input_sequence) |->
                    from_item(input_sequence[i], ascii_keypress)])

Pair(key, modifiers) == [t |-> "tuple", key |-> key, modifiers |-> modifiers]

(* ----------------------- the calls that are checked -------------------- *)
Masks == 0..(Alt + Ctrl + Meta + Shift)
MultiCharKeys == {<<"a", "b">>, <<"A", "b">>, <<"a", "1">>, <<"1", "2">>, <<"!", "@">>,
                  <<";", ";">>, <<":", "a">>, <<"LF", "CR">>, <<"e-acute", "a">>}
SingleKeys == {<<c>> : c \in Ascii \cup NonAsciiLetters \cup NonAsciiDigits}
Keys == {Str(s) : s \in SingleKeys \cup MultiCharKeys \cup Emoji}
        \cup {Special(n) : n \in SpecialKeyNames}
Texts == Emoji \cup {<<"H", "i">>, <<"a", " ", "B">>, <<"!", "THUMBS_UP", "SKIN_TONE", "LF">>,
                     <<"MAN", "ZWJ", "WOMAN", "e-acute">>, <<"CR", "LF", "x">>,
                     <<"e-acute">>, <<"e", "COMBINING_ACUTE">>, <<"ARABIC_THREE">>}
MixedInput ==
    <<Str(<<"H", "i">>), Special("ENTER"), Pair(Str(<<"a">>), Ctrl), Str(<<"THUMBS_UP">>)>>
Inputs == {MixedInput,
           <<Str(<<" ", "a">>), Special("ARROW_UP"), Pair(Str(<<"v">>), Ctrl)>>,
           <<Pair(Str(<<"A">>), Ctrl)>>,
           <<Pair(Special("SHIFT"), Shift), Str(<<"x">>)>>,
           <<Str(<<"a", "a", "?">>), Pair(Special("ALT"), Ctrl), Pair(Str(<<"b">>), Alt + Shift)>>}

KeyCalls ==
    {[fn |-> "to_cdp_events", key |-> k, modifiers |-> m, mode |-> e] :
        k \in Keys, m \in Masks, e \in KeyPressEvent}
    \cup {[fn |-> "from_text", text |-> t, mode |-> e] : t \in Texts, e \in KeyPressEvent}
    \cup {[fn |-> "from_mixed_input", input |-> i, mode |-> e] :
            i \in Inputs, e \in {CHAR, DOWN_AND_UP}}

NotRun == result.err = "not run"
keysFrame == <<handlers, tasks, sent, closed, heap, stage, nResets, expectVars,
               downloadVars, fetchVars, call, sendVars, registryVars, vw>>

ToCdpEvents ==
    /\ call.fn = "to_cdp_events"
    /\ NotRun
    /\ result' = compile(call.key, call.modifiers, call.mode)
    /\ ke' = LET self == KeyEvents(call.key, call.modifiers)
             IN  IF self.err # "none" THEN [err |-> "no instance"]
                 ELSE to_cdp_events_self(self, call.mode)
    /\ UNCHANGED second
    /\ UNCHANGED keysFrame

\* the same call once more, on the instance the first call left behind
ToCdpEventsAgain ==
    /\ call.fn = "to_cdp_events"
    /\ ~NotRun
    /\ ke.err = "none"
    /\ second.err = "not run"
    /\ second' = to_cdp_events(ke, call.mode)
    /\ ke' = to_cdp_events_self(ke, call.mode)
    /\ UNCHANGED result
    /\ UNCHANGED keysFrame

FromText ==
    /\ call.fn = "from_text"
    /\ NotRun
    /\ result' = from_text(call.text, call.mode)
    /\ UNCHANGED <<ke, second>>
    /\ UNCHANGED keysFrame

FromMixedInput ==
    /\ call.fn = "from_mixed_input"
    /\ NotRun
    /\ result' = from_mixed_input(call.input, call.mode)
    /\ UNCHANGED <<ke, second>>
    /\ UNCHANGED keysFrame

InitKeys ==
    /\ ConnectionInit
    /\ heap = <<>>
    /\ ExpectUnused
    /\ DownloadUnused
    /\ FetchUnused
    /\ call \in KeyCalls
    /\ result = [err |-> "not run", out |-> <<>>]
    /\ ke = [err |-> "no instance"]
    /\ second = [err |-> "not run", out |-> <<>>]
    /\ SendUnused
    /\ RegistryUnused
    /\ WaitUnused

NextKeys ==
    \/ ToCdpEvents
    \/ ToCdpEventsAgain
    \/ FromText
    \/ FromMixedInput

SpecKeys == InitKeys /\ [][NextKeys]_vars

(* ============ Connection: commands and replies (spec.md 3, 4.2) ========= *)
MaxSends == 3       \* send() calls in one behaviour

Methods == {"Page.enable", "Runtime.evaluate"}
ReplyKinds == {"result", "protocol-error"}
Frame(id, method) == [id |-> id, method |-> method]

next_id_Restarts(c) == IF inflight = << >> THEN 1 ELSE c + 1

\* the id counter: ids are drawn one after the other, the first is 1
next_id(c) == c + 1

\* a mapping with the entry id -> v added, and with the entry of id removed
register(m, id, v) == [i \in DOMAIN m \cup {id} |-> IF i = id THEN v ELSE m[i]]
unregister(m, id) == [i \in DOMAIN m \ {id} |-> m[i]]

sendFrame == <<handlers, tasks, heap, stage, nResets, expectVars, downloadVars, fetchVars,
               keyVars, registryVars, vw>>

\* Connection.send(command) up to its first suspension: draw the id, register
\* it in inflight, hand the serialized frame to the transport.
Send(method) ==
    /\ ~closed
    /\ count < MaxSends
    /\ count' = next_id(count)
    /\ inflight' = register(inflight, count', method)
    /\ outbox' = Append(outbox, Frame(count', method))
    /\ UNCHANGED <<sent, closed, outcome>>
    /\ UNCHANGED sendFrame

\* Transport: the frames go on the wire in the order they were handed over.
Transmit ==
    /\ ~closed
    /\ outbox # <<>>
    /\ sent' = Append(sent, Head(outbox))
    /\ outbox' = Tail(outbox)
    /\ UNCHANGED <<count, inflight, closed, outcome>>
    /\ UNCHANGED sendFrame

\* Dispatch of an incoming frame that has an id: the matching inflight entry
\* is completed (result, or rejected with the error) and removed.  Replies
\* arrive in any order.
Reply(id, kind) ==
    /\ ~closed
    /\ \E i \in 1..Len(sent) : sent[i].id = id
    /\ id \in DOMAIN inflight
    /\ outcome' = register(outcome, id, kind)
    /\ inflight' = unregister(inflight, id)
    /\ UNCHANGED <<count, outbox, sent, closed>>
    /\ UNCHANGED sendFrame

InitConnection ==
    /\ ConnectionInit
    /\ heap = <<>>
    /\ ExpectUnused
    /\ DownloadUnused
    /\ FetchUnused
    /\ KeysUnused
    /\ SendUnused
    /\ RegistryUnused
    /\ WaitUnused

NextConnection ==
    \/ \E method \in Methods : Send(method)
    \/ Transmit
    \/ \E id \in 1..MaxSends, kind \in ReplyKinds : Reply(id, kind)
    \/ Close

SpecConnection == InitConnection /\ [][NextConnection]_vars

(* ======= Connection: handler registry and dispatch (spec.md 4.2) ======= *)
MaxCalls == 4       \* add_handler / remove_handlers calls in one behaviour
N == 27             \* event classes of the Network domain

\* the handlers of the user, all asynchronous, in the order h1, h2, h3
Callables == <<"h1", "h2", "h3">>
NotGiven == "not given"     \* an optional argument left out
Network == "Network"        \* the domain marker of the Network domain

\* The event classes of the Network domain: the three this model dispatches
\* and the others, which are told apart by number only.
OtherNetworkEvents ==
    {"Network.#4", "Network.#5", "Network.#6", "Network.#7", "Network.#8", "Network.#9",
     "Network.#10", "Network.#11", "Network.#12", "Network.#13", "Network.#14",
     "Network.#15", "Network.#16", "Network.#17", "Network.#18", "Network.#19",
     "Network.#20", "Network.#21", "Network.#22", "Network.#23", "Network.#24",
     "Network.#25", "Network.#26", "Network.#27"}
EventClasses(domain) ==
    IF domain = Network
    THEN {RequestWillBeSent, ResponseReceived, LoadingFinished} \cup OtherNetworkEvents
    ELSE {}

add_handler_domain_FirstClassOnly(h, domain, f) == add_handler(h, RequestWillBeSent, f)

\* Connection.add_handler(domain marker, fn): the marker expands to the event
\* classes of the domain, and fn is appended to the bucket of each.
add_handler_domain(h, domain, f) ==
    [x \in DOMAIN h \cup EventClasses(domain) |->
        IF x \notin EventClasses(domain) THEN h[x]
        ELSE IF x \in DOMAIN h THEN Append(h[x], f) ELSE <<f>>]

\* Connection.remove_handlers(event_type): the bucket of event_type is cleared.
remove_bucket(h, et) == [x \in DOMAIN h \ {et} |-> h[x]]

handler_without_event_type_Accepted(event_type, handler) == FALSE

\* Connection.remove_handlers: a handler without an event type is a usage error.
handler_without_event_type(event_type, handler) ==
    event_type = NotGiven /\ handler # NotGiven

Call(name, event_type, handler, err) ==
    [op |-> name, event_type |-> event_type, handler |-> handler, err |-> err]

registryFrame == <<sent, closed, heap, stage, nResets, expectVars, downloadVars, fetchVars,
                   keyVars, sendVars, vw>>

\* Connection.add_handler(event_type_or_domain, handler)
AddHandler(event_type_or_domain, handler) ==
    /\ calls.n < MaxCalls
    /\ handlers' = IF event_type_or_domain = Network
                   THEN add_handler_domain(handlers, event_type_or_domain, handler)
                   ELSE add_handler(handlers, event_type_or_domain, handler)
    /\ calls' = [n |-> calls.n + 1,
                 last |-> Call("add_handler", event_type_or_domain, handler, "none")]
    /\ UNCHANGED <<tasks, invoked>>
    /\ UNCHANGED registryFrame

\* Connection.remove_handlers(event_type = None, handler = None)
RemoveHandlers(event_type, handler) ==
    /\ calls.n < MaxCalls
    /\ IF handler_without_event_type(event_type, handler)
       THEN /\ calls' = [n |-> calls.n + 1,
                         last |-> Call("remove_handlers", event_type, handler, "ValueError")]
            /\ UNCHANGED handlers
       ELSE /\ calls' = [n |-> calls.n + 1,
                         last |-> Call("remove_handlers", event_type, handler, "none")]
            /\ handlers' = IF event_type = NotGiven THEN << >>
                           ELSE IF handler = NotGiven THEN remove_bucket(handlers, event_type)
                           ELSE remove_handlers(handlers, event_type, handler)
    /\ UNCHANGED <<tasks, invoked>>
    /\ UNCHANGED registryFrame

\* The event loop starts the scheduled handler invocation at the head of its
\* queue; the handlers of the user do nothing to the Connection.
RunHandler ==
    /\ tasks # <<>>
    /\ invoked' = Append(invoked, Head(tasks))
    /\ tasks' = Tail(tasks)
    /\ UNCHANGED <<handlers, calls>>
    /\ UNCHANGED registryFrame

InitRegistry == InitConnection

NextRegistry ==
    \/ \E t \in {RequestWillBeSent, ResponseReceived, Network}, f \in {"h1", "h2", "h3"} :
          AddHandler(t, f)
    \/ \E t \in {NotGiven, RequestWillBeSent, ResponseReceived}, f \in {NotGiven, "h1", "h2"} :
          RemoveHandlers(t, f)

SpecRegistry == InitRegistry /\ [][NextRegistry]_vars

\* Dispatch: handlers are registered one after the other, the k-th
\* registration being the one of Callables[k], while events arrive and the
\* event loop runs the handlers.
HandlerEvents ==
    {ev \in NetworkEvents :
        /\ ev.type \in {RequestWillBeSent, ResponseReceived}
        /\ ev.url \in {<<>>, <<"a", "b">>}}

NextDispatch ==
    \/ \E t \in {RequestWillBeSent, ResponseReceived, Network} :
          calls.n < Len(Callables) /\ AddHandler(t, Callables[calls.n + 1])
    \/ \E ev \in HandlerEvents : Dispatch(ev)
    \/ RunHandler

SpecDispatch == InitRegistry /\ [][NextDispatch]_vars

(* ====== a bounded wait on RequestExpectation.value (asyncio.wait_for) ==== *)
Cancelled(f) == heap[f].st = "cancelled"

waitFrame == <<handlers, tasks, sent, closed, url_pattern, request_future, response_future,
               loading_finished_future, request_id, scope, rb, stage, nResets,
               downloadVars, fetchVars, keyVars, sendVars, registryVars>>

\* await asyncio.wait_for(expectation.value, timeout) inside the scope; value
\* is `return await self.request_future`: it returns the result of a done
\* future, raises CancelledError on a cancelled one, and waits on a pending one.
ValueCall ==
    /\ scope = "entered"
    /\ vw.pc \in {"idle", "timed_out"}
    /\ vw' = [pc |-> IF Done(request_future) THEN "returned"
                     ELSE IF Cancelled(request_future) THEN "cancelled_error"
                     ELSE "awaiting",
              fut |-> request_future]
    /\ UNCHANGED heap
    /\ UNCHANGED waitFrame

\* the awaited future got its result: the wait returns it
ValueReturn ==
    /\ vw.pc = "awaiting"
    /\ Done(vw.fut)
    /\ vw' = [vw EXCEPT !.pc = "returned"]
    /\ UNCHANGED heap
    /\ UNCHANGED waitFrame

\* the deadline passes first: wait_for cancels the task that runs value,
\* which cancels the future that task is waiting on, and raises TimeoutError
ValueTimeout ==
    /\ vw.pc = "awaiting"
    /\ Pending(vw.fut)
    /\ heap' = [heap EXCEPT ![vw.fut].st = "cancelled"]
    /\ vw' = [vw EXCEPT !.pc = "timed_out"]
    /\ UNCHANGED waitFrame

NextTimeout ==
    \/ Enter
    \/ Exit
    \/ \E ev \in NetworkEvents : Dispatch(ev)
    \/ RunRequestHandler
    \/ RunResponseHandler
    \/ RunLoadingFinishedHandler
    \/ ValueCall
    \/ ValueReturn
    \/ ValueTimeout

SpecTimeout == Init /\ [][NextTimeout]_vars

(* ============================ properties =============================== *)
\* A step that runs the scheduled invocation at the head of the queue.
Runs(h) ==
    /\ tasks # <<>>
    /\ Head(tasks).h = h
    /\ tasks' # tasks
    /\ stage' = stage

ResetStep == nResets' # nResets
LastSent == sent'[Len(sent')]

LoadingFinishedObserved(rid) ==
    \E f \in 1..Len(heap) :
        /\ heap[f].st = "done"
        /\ heap[f].ev.type = LoadingFinished
        /\ heap[f].ev.request_id = rid

\* C1: within one scope and without reset, once the request slot is complete
\* (a matching RequestWillBeSent has been handled) no later step changes
\* request_id or the request slot.
C1_FirstMatchWins ==
    [][(Done(request_future) /\ ~ResetStep)
        => (request_id' = request_id /\ heap'[request_future'] = heap[request_future])]_vars

\* C2: the response slot (the loading-finished slot) changes only by the
\* response (loading-finished) handler running on an event whose request_id is
\* the captured request_id, and then holds that event; a handler run on an
\* event with another id, or while request_id is unset, changes neither a slot
\* nor the registry.
C2_OnlyCapturedIdCompletes ==
    [][/\ (~ResetStep /\ heap'[response_future] # heap[response_future])
            => /\ Runs("_response_handler")
               /\ request_id # None
               /\ Head(tasks).ev.type = ResponseReceived
               /\ Head(tasks).ev.request_id = request_id
               /\ heap'[response_future] = [st |-> "done", ev |-> Head(tasks).ev]
       /\ (~ResetStep /\ heap'[loading_finished_future] # heap[loading_finished_future])
            => /\ Runs("_loading_finished_handler")
               /\ request_id # None
               /\ Head(tasks).ev.type = LoadingFinished
               /\ Head(tasks).ev.request_id = request_id
               /\ heap'[loading_finished_future] = [st |-> "done", ev |-> Head(tasks).ev]
       /\ ((Runs("_response_handler") \/ Runs("_loading_finished_handler"))
              /\ Head(tasks).ev.request_id # request_id)
            => UNCHANGED <<handlers, heap>>
      ]_vars

C2_Witness ==
    /\ Done(response_future)
    /\ Done(loading_finished_future)
    /\ heap[response_future].ev.request_id = request_id
    /\ heap[loading_finished_future].ev.request_id = request_id
    /\ \E i \in ReqIds : i # request_id /\ stage[i] = 3
    /\ tasks = <<>>

\* The state of a freshly entered scope.
Fresh ==
    /\ Pending(request_future)
    /\ Pending(response_future)
    /\ Pending(loading_finished_future)
    /\ request_id = None
    /\ Registered(handlers, RequestWillBeSent, "_request_handler") = 1
    /\ Registered(handlers, ResponseReceived, "_response_handler") = 1
    /\ Registered(handlers, LoadingFinished, "_loading_finished_handler") = 1

MatchingRun ==
    \/ Runs("_request_handler") /\ fullmatch(url_pattern, Head(tasks).ev.url) = "match"
    \/ Runs("_response_handler") /\ Head(tasks).ev.request_id = request_id
    \/ Runs("_loading_finished_handler") /\ Head(tasks).ev.request_id = request_id

C4_ExitDetachesAll ==
    scope = "exited" =>
        /\ Registered(handlers, RequestWillBeSent, "_request_handler") = 0
        /\ Registered(handlers, ResponseReceived, "_response_handler") = 0
        /\ Registered(handlers, LoadingFinished, "_loading_finished_handler") = 0
        /\ _teardown(handlers) = handlers

C4_Witness ==
    /\ scope = "exited"
    /\ Done(request_future)
    /\ Done(response_future)
    /\ Pending(loading_finished_future)
    /\ nResets = 0

ResponseCaptured(rid) ==
    \E f \in 1..Len(heap) :
        /\ heap[f].st = "done"
        /\ heap[f].ev.type = ResponseReceived
        /\ heap[f].ev.request_id = rid

\* C5: Network.getResponseBody is sent only once LoadingFinished for the
\* captured request id has been observed, and carries that request id (the
\* id of the captured response event).
C5_BodyAfterLoadingFinished ==
    [][sent' # sent
        => /\ LastSent.method = "Network.getResponseBody"
           /\ ResponseCaptured(LastSent.request_id)
           /\ LoadingFinishedObserved(LastSent.request_id)]_vars

\* C6: once the Connection is closed no slot of an active expectation scope
\* is left pending.
C6_CloseFailsPendingSlots ==
    (closed /\ scope = "entered")
        => /\ ~Pending(request_future)
           /\ ~Pending(response_future)
           /\ ~Pending(loading_finished_future)

\* C7: when the request handler raises while processing an event (the URL
\* predicate raises), the handler is detached and the request slot is failed.
C7_RaisingHandlerDetached ==
    [][(Runs("_request_handler") /\ fullmatch(url_pattern, Head(tasks).ev.url) = "raise")
        => /\ Registered(handlers', RequestWillBeSent, "_request_handler") = 0
           /\ heap'[request_future].st = "failed"]_vars

\* C8: the download scope sends setDownloadBehavior(deny) on entry and, on
\* exit, setDownloadBehavior with the (behavior, path) pair the Connection
\* held immediately before the scope was entered.
C8_RestoresBehaviorAtEntry ==
    [][/\ (dl = "constructed" /\ dl' = "entering")
            => LastSent = set_download_behavior("deny", "None")
       /\ (dl = "entered" /\ dl' = "exiting")
            => LastSent = set_download_behavior(DefaultBehaviorOf(entry_behavior),
                                                DownloadPathOf(entry_behavior))
      ]_vars

\* C9: per scope entry and per reset at most one Fetch.requestPaused event is
\* captured: the paused slot, once written, is not replaced; the handler
\* detaches itself when it runs; and once an event has been captured no later
\* paused event reaches the handler until reset() is called.
C9_OnePausedEventPerEntry ==
    [][/\ (Done(fetch_response_future) /\ ~ResetStep)
            => heap'[fetch_response_future'] = heap[fetch_response_future]
       /\ Runs("fetch_response_handler")
            => Registered(handlers', RequestPaused, "fetch_response_handler") = 0
       /\ Runs("fetch_response_handler") => Pending(fetch_response_future)
      ]_vars

ScopeCommands == {"Fetch.enable", "Fetch.disable"}

\* C10: an operation sends its Fetch command only once the paused slot it
\* awaits holds a requestPaused event, with that event's request id and the
\* operation's own method; while that slot is pending the operation stays
\* suspended and sends nothing.
C10_OperationsAwaitPause ==
    [][/\ (sent' # sent /\ LastSent.method \notin ScopeCommands)
            => /\ op'.pc = "await_reply"
               /\ LastSent.method = Method(op'.kind)
               /\ heap[op'.fut].st = "done"
               /\ heap[op'.fut].ev.type = RequestPaused
               /\ LastSent.request_id = heap[op'.fut].ev.request_id
       /\ (op.pc = "await_paused" /\ Pending(op.fut))
            => /\ op' = op
               /\ sent' # sent => LastSent.method \in ScopeCommands
      ]_vars

C10_Witness ==
    /\ Len(sent) >= 4
    /\ Done(fetch_response_future)
    /\ \E i, j \in 1..Len(sent) :
        /\ i < j
        /\ sent[i].method = "Fetch.getResponseBody"
        /\ sent[j].method = "Fetch.continueRequest"
        /\ sent[i].request_id = heap[fetch_response_future].ev.request_id
        /\ sent[j].request_id = heap[fetch_response_future].ev.request_id
    /\ fi = "exited"

PausedHandlers(h) == Registered(h, RequestPaused, "fetch_response_handler")

Sent(method) == Cardinality({i \in 1..Len(sent) : sent[i].method = method})

\* C11: on scope entry Fetch.enable with exactly one RequestPattern is sent
\* first; while its reply is awaited neither the domain is recorded nor the
\* handler registered; the step that registers the requestPaused handler is
\* the continuation after the acknowledgement, and it records Fetch in
\* enabled_domains as well.
C11_EnableAcknowledgedFirst ==
    [][/\ (fi = "new" /\ fi' = "enabling")
            => /\ sent' = Append(sent, Cmd("Fetch.enable", 0, <<FetchPattern>>))
               /\ Len(LastSent.args) = 1
               /\ UNCHANGED <<handlers, enabled_domains>>
       /\ fi \in {"new", "enabling"}
            => /\ PausedHandlers(handlers) = 0
               /\ enabled_domains = <<>>
       /\ PausedHandlers(handlers') > PausedHandlers(handlers)
            => /\ fi \in {"enabling", "reset_enabling"}
               /\ fi' = "entered"
               /\ Sent("Fetch.enable") >= 1
               /\ sent' = sent
               /\ enabled_domains' = Append(enabled_domains, "Fetch")
      ]_vars

C11_Witness ==
    /\ fi = "entered"
    /\ nResets = 0
    /\ sent = <<Cmd("Fetch.enable", 0, <<FetchPattern>>)>>
    /\ enabled_domains = <<"Fetch">>
    /\ PausedHandlers(handlers) = 1

\* C12: in a scope entered and exited once without reset, no Fetch.disable is
\* sent before exit, exactly one has been sent once exit has begun, and the
\* step that sends it leaves no requestPaused handler registered.
C12_OneDisableAtExit ==
    [][nResets' = 0
        => /\ fi' \in {"new", "enabling", "entered"} => Sent("Fetch.disable")' = 0
           /\ fi' \in {"disabling", "exited"} => Sent("Fetch.disable")' = 1
           /\ Sent("Fetch.disable")' <= 1
           /\ Sent("Fetch.disable")' > Sent("Fetch.disable")
                => /\ fi = "entered" /\ fi' = "disabling"
                   /\ PausedHandlers(handlers') = 0
      ]_vars

C12_Witness ==
    /\ fi = "exited"
    /\ nResets = 0
    /\ Pending(fetch_response_future)
    /\ Sent("Fetch.disable") = 1
    /\ sent[Len(sent)].method = "Fetch.disable"
    /\ PausedHandlers(handlers) = 0

\* C13: reset() sends Fetch.disable, then Fetch.enable, and when it returns
\* the paused slot is pending with exactly one requestPaused handler
\* registered, ready to capture the next paused event.
C13_ResetReadyForNextPause ==
    [][/\ ResetStep /\ ~closed => LastSent.method = "Fetch.disable"
       /\ (fi = "reset_disabling" /\ fi' = "reset_enabling")
            => LastSent.method = "Fetch.enable"
       /\ (fi = "reset_enabling" /\ fi' = "entered")
            => /\ PausedHandlers(handlers') = 1
               /\ Pending(fetch_response_future)'
      ]_vars

(* ---------------------- key compiler properties ---------------------- *)
Ran(fn) == call.fn = fn /\ ~NotRun
popcount(M) == Cardinality({b \in {Alt, Ctrl, Meta, Shift} : Bit(M, b)})

\* a payload in brief: its type, the key it is about (its code; its text for
\* a char payload), and its modifiers mask
Brief(p) == <<p.type_, IF p.type_ = CHAR THEN p.text ELSE p.code, p.modifiers>>
BriefAll(out) == [i \in 1..Len(out) |-> Brief(out[i])]
down(code, mask) == <<KEY_DOWN, code, mask>>
up(code, mask) == <<KEY_UP, code, mask>>

RanMixedInput == Ran("from_mixed_input") /\ call.input = MixedInput /\ call.mode = DOWN_AND_UP

\* C14 as stated: from_mixed_input(["Hi", ENTER, ("a", Ctrl), thumbs-up]) in
\* DOWN_AND_UP mode returns exactly the 11 payloads down(H, Shift), up(H, 0),
\* down(i, 0), up(i, 0), down(Enter, 0), up(Enter, 0), down(Ctrl, Ctrl),
\* down(a, Ctrl), up(Ctrl, 0), up(a, 0), char(text = the emoji).
C14_ElevenPayloads ==
    RanMixedInput =>
        /\ result.err = "none"
        /\ BriefAll(result.out) =
            << down(<<"Key", "H">>, Shift), up(<<"Key", "H">>, 0),
               down(<<"Key", "I">>, 0), up(<<"Key", "I">>, 0),
               down(<<"Enter">>, 0), up(<<"Enter">>, 0),
               down(<<"Control", "Left">>, Ctrl), down(<<"Key", "A">>, Ctrl),
               up(<<"Control", "Left">>, 0), up(<<"Key", "A">>, 0),
               <<CHAR, <<"THUMBS_UP">>, 0>> >>

\* C14 amended: the same call returns 13 payloads, the Shift implied by "H"
\* being pressed and released as a key of its own: down(Shift, Shift),
\* down(H, Shift), up(Shift, 0), up(H, 0), then the ten payloads of
\* i, Enter, Ctrl+a and the emoji as the claim lists them.
C14_ThirteenPayloads ==
    RanMixedInput =>
        /\ result.err = "none"
        /\ BriefAll(result.out) =
            << down(<<"Shift", "Left">>, Shift), down(<<"Key", "H">>, Shift),
               up(<<"Shift", "Left">>, 0), up(<<"Key", "H">>, 0),
               down(<<"Key", "I">>, 0), up(<<"Key", "I">>, 0),
               down(<<"Enter">>, 0), up(<<"Enter">>, 0),
               down(<<"Control", "Left">>, Ctrl), down(<<"Key", "A">>, Ctrl),
               up(<<"Control", "Left">>, 0), up(<<"Key", "A">>, 0),
               <<CHAR, <<"THUMBS_UP">>, 0>> >>

C14_Witness == RanMixedInput /\ Len(result.out) = 13

\* characters that imply Shift, and the key each is typed with
ImpliesShift == Range(Upper) \cup Range(NUM_SHIFT) \cup (DOMAIN SPECIAL_CHAR_SHIFT_MAP)
Unshifted(c) ==
    CASE c \in Range(Upper) -> Lower[IndexIn(Upper, c)]
      [] c \in Range(NUM_SHIFT) -> Digits[IndexIn(NUM_SHIFT, c)]
      [] c \in DOMAIN SPECIAL_CHAR_SHIFT_MAP -> SPECIAL_CHAR_SHIFT_MAP[c]

RanDownAndUp == Ran("to_cdp_events") /\ call.mode = DOWN_AND_UP
RanPrintable ==
    /\ RanDownAndUp
    /\ isinstance_str(call.key)
    /\ Len(call.key.v) = 1
    /\ call.key.v[1] \in Printable

\* C15 as stated: for every printable ASCII character c and every mask M,
\* compiling (c, M) in DOWN_AND_UP mode returns exactly 2*popcount(M) + 2
\* payloads.
C15_TwoPerModifierPlusTwo ==
    RanPrintable =>
        /\ result.err = "none"
        /\ Len(result.out) = 2 * popcount(call.modifiers) + 2

\* C15 amended: for a printable ASCII character that does not imply Shift,
\* every mask M gives 2*popcount(M) + 2 payloads; for one that implies Shift,
\* M = 0 and M = Shift both give the 4 payloads of the Shift chord, and every
\* other mask fails with ValueError and gives no payload.
C15_CountWithImpliedShift ==
    RanPrintable =>
        IF call.key.v[1] \notin ImpliesShift
        THEN /\ result.err = "none"
             /\ Len(result.out) = 2 * popcount(call.modifiers) + 2
        ELSE IF call.modifiers \in {Default, Shift}
        THEN /\ result.err = "none"
             /\ Len(result.out) = 4
        ELSE result = Raises("ValueError")

C15_Witness ==
    /\ RanPrintable
    /\ call.key = Str(<<"A">>)
    /\ call.modifiers = Default
    /\ Len(result.out) = 4

\* C16: compiling a character that implies Shift with no modifier in
\* DOWN_AND_UP mode gives the payload list, field for field, of compiling its
\* unshifted form with the Shift modifier.
C16_ShiftNormalisation ==
    (RanPrintable /\ call.key.v[1] \in ImpliesShift /\ call.modifiers = Default) =>
        /\ result.err = "none"
        /\ result = compile(Str(<<Unshifted(call.key.v[1])>>), Shift, DOWN_AND_UP)

C16_Witness ==
    /\ RanPrintable
    /\ call.key = Str(<<"?">>)
    /\ call.modifiers = Default
    /\ Len(result.out) = 4
    /\ result.out[2].key = <<"?">>
    /\ result.out[4].key = <<"/">>
    /\ result.out[2].code = <<"Slash">>

CharPayload(text) ==
    [type_ |-> CHAR, modifiers |-> 0, text |-> text, key |-> NoneStr, code |-> NoneStr,
     windows_virtual_key_code |-> None, native_virtual_key_code |-> None]

\* C17: for every emoji grapheme e, also one of several code points, and
\* every requested mode, from_text(e, mode) returns exactly one payload: of
\* type char, with text e and without key, code and virtual key codes.
C17_EmojiIsOneCharPayload ==
    (Ran("from_text") /\ call.text \in Emoji) =>
        /\ result.err = "none"
        /\ result.out = <<CharPayload(call.text)>>

C17_Witness ==
    /\ Ran("from_text")
    /\ call.text = <<"MAN", "ZWJ", "WOMAN">>
    /\ call.mode = KEY_DOWN
    /\ Len(result.out) = 1
    /\ result.out[1].text = <<"MAN", "ZWJ", "WOMAN">>

\* the modifier bits of M in the order Alt, Ctrl, Meta, Shift
Active(M) == SelectSeq(<<Alt, Ctrl, Meta, Shift>>, LAMBDA b : Bit(M, b))
ModifierName(b) ==
    CASE b = Alt -> "ALT" [] b = Ctrl -> "CTRL" [] b = Meta -> "META" [] b = Shift -> "SHIFT"
ModifierCode(b) == SpecialKeyValue(ModifierName(b)).name \o <<"Left">>
RECURSIVE FirstBits(_, _)
FirstBits(A, k) == IF k = 0 THEN 0 ELSE FirstBits(A, k - 1) + A[k]

\* the mask of an expansion: the modifiers of the call, with Shift when the key implies it
MaskOf(key, modifiers) ==
    IF isinstance_str(key) /\ key.v[1] \in ImpliesShift THEN BitOr(modifiers, Shift)
    ELSE modifiers

\* a call that produced a DOWN_AND_UP expansion of one key
Expanded ==
    /\ RanDownAndUp
    /\ Len(call.key.v) = 1
    /\ result.err = "none"
    /\ result.out[1].type_ # CHAR

ModifiersDown(out, A) ==
    \A i \in 1..Len(A) : Brief(out[i]) = down(ModifierCode(A[i]), FirstBits(A, i))
ModifiersUp(out, A, from) ==
    \A i \in 1..Len(A) :
        Brief(out[from + i]) = up(ModifierCode(A[i]), FirstBits(A, Len(A)) - FirstBits(A, i))

ChordWithMainKey(out, M, code) ==
    LET A == Active(M)
        n == Len(A)
    IN  /\ Len(out) = 2 * n + 2
        /\ ModifiersDown(out, A)
        /\ Brief(out[n + 1]) = down(code, M)
        /\ ModifiersUp(out, A, n + 1)
        /\ Brief(out[2 * n + 2]) = up(code, 0)

ChordOfModifiersOnly(out, M) ==
    LET A == Active(M)
        n == Len(A)
    IN  /\ Len(out) = 2 * n
        /\ ModifiersDown(out, A)
        /\ ModifiersUp(out, A, n)

MainKeyIsHeldModifier ==
    /\ ~isinstance_str(call.key)
    /\ \E b \in {Alt, Ctrl, Meta, Shift} :
        /\ Bit(call.modifiers, b)
        /\ call.key = Special(ModifierName(b))

BareModes == {KEY_DOWN, KEY_UP, RAW_KEY_DOWN}
SingleKey(key) == key \in {Str(s) : s \in SingleKeys \cup Emoji} \cup {Special(n) : n \in SpecialKeyNames}
\* a grapheme without key code: an emoji, or anything that is not one ASCII
\* character or one decimal digit of another script
Keyless(g) == g \in Emoji \/ Len(g) > 1 \/ g[1] \notin Ascii \cup NonAsciiDigits

\* C19 as stated: to_cdp_events, and from_text, asked for a bare KEY_DOWN,
\* KEY_UP or RAW_KEY_DOWN fails with NotImplementedError and returns no
\* payload, for every key, non-ASCII and emoji graphemes included.
C19_BareModesNotImplemented ==
    /\ (Ran("to_cdp_events") /\ call.mode \in BareModes /\ SingleKey(call.key))
            => result = Raises("NotImplementedError")
    /\ (Ran("from_text") /\ call.mode \in BareModes)
            => result = Raises("NotImplementedError")

\* C19 amended: the bare modes fail with NotImplementedError and no payload
\* for every key that has a key code (letters, digits, punctuation,
\* whitespace, special keys); a non-ASCII or emoji grapheme is emitted as one
\* char payload whatever the mode, so from_text fails exactly when the text
\* holds a grapheme that has a key code.
C19_BareModesUnlessKeyless ==
    /\ (Ran("to_cdp_events") /\ call.mode \in BareModes /\ SingleKey(call.key))
            => IF isinstance_str(call.key) /\ Keyless(call.key.v)
               THEN result = Returns(<<CharPayload(call.key.v)>>)
               ELSE result = Raises("NotImplementedError")
    /\ (Ran("from_text") /\ call.mode \in BareModes)
            => LET gs == graphemes(call.text)
               IN  IF \A i \in 1..Len(gs) : Keyless(gs[i])
                   THEN result = Returns([i \in 1..Len(gs) |-> CharPayload(gs[i])])
                   ELSE result = Raises("NotImplementedError")

C19_Witness ==
    /\ Ran("to_cdp_events")
    /\ call.mode = KEY_UP
    /\ call.key = Special("ESCAPE")
    /\ result = Raises("NotImplementedError")

\* C20: creating or compiling a single-key KeyEvents from a string of more
\* than one character fails with ValueError and gives no payload, for
\* letters, digits, punctuation and mixtures.
C20_MultiCharRejected ==
    (Ran("to_cdp_events") /\ isinstance_str(call.key) /\ call.key.v \in MultiCharKeys
        /\ call.key.v \notin Emoji)
        => result = Raises("ValueError")

\* C21: in DOWN_AND_UP mode a character that implies Shift (uppercase letter,
\* shifted digit, shifted punctuation) with a mask other than none or Shift
\* alone fails with ValueError and gives no payload; every other (printable
\* ASCII character, mask) pair compiles without error.
C21_ShiftedCharWithOtherModifiers ==
    RanPrintable =>
        IF call.key.v[1] \in ImpliesShift /\ call.modifiers \notin {Default, Shift}
        THEN result.err = "ValueError" /\ result.out = <<>>
        ELSE result.err = "none" /\ result.out # <<>>

C21_Witness ==
    /\ RanPrintable
    /\ call.key = Str(<<"%">>)
    /\ call.modifiers = BitOr(Ctrl, Shift)
    /\ result = Raises("ValueError")

SpecialCall == Ran("to_cdp_events") /\ call.mode = CHAR /\ ~isinstance_str(call.key)
Textual == {"SPACE", "ENTER", "TAB"}

\* C22: to_cdp_events(CHAR) on a special key that has no text (the arrows,
\* Backspace, Delete, Escape and the modifier keys) fails with ValueError; on
\* Space, Enter and Tab it returns exactly one char payload.
C22_CharOfSpecialKey ==
    SpecialCall =>
        IF call.key.v[1] \in Textual
        THEN /\ result.err = "none"
             /\ Len(result.out) = 1
             /\ result.out[1].type_ = CHAR
        ELSE result = Raises("ValueError")

C22_Witness ==
    /\ SpecialCall
    /\ call.key = Special("TAB")
    /\ Len(result.out) = 1
    /\ result.out[1].text = <<"HT">>

(* ------------------------ Connection properties ------------------------ *)
\* C23: over the whole lifetime of a Connection the ids of the commands it
\* sends are pairwise distinct and strictly increasing in send order, and
\* start at 1, also when several sends are in flight at once.
C23_IdsIncreaseFromOne ==
    /\ sent # <<>> => sent[1].id = 1
    /\ \A i, j \in 1..Len(sent) : i < j => sent[i].id < sent[j].id
    /\ \A i \in 1..Len(outbox) :
          /\ \A j \in 1..Len(sent) : sent[j].id < outbox[i].id
          /\ \A j \in 1..(i - 1) : outbox[j].id < outbox[i].id

\* a command was completed and left inflight, two more are in flight, and
\* all three are on the wire
C23_Witness ==
    /\ Len(sent) = 3
    /\ Cardinality(DOMAIN inflight) = 2
    /\ DOMAIN outcome # {}

InFlightIds == DOMAIN inflight
Finished == DOMAIN outcome
OnWire == {sent[i].id : i \in 1..Len(sent)}

\* C28: each command id is in inflight at most once: it is inserted before
\* its frame is transmitted and removed when its reply arrives, never to
\* return; when the Connection is closed or the transport drops, every
\* command in flight completes with session-closed and inflight becomes
\* empty, so that no send stays pending.
C28_InflightLifecycle ==
    [][ /\ \A id \in InFlightIds' \ InFlightIds :
              id \notin Finished /\ id \notin OnWire' /\ id > count
        /\ OnWire' \subseteq InFlightIds' \cup Finished'
        /\ InFlightIds' \cap Finished' = {}
        /\ \A id \in InFlightIds \ InFlightIds' :
              /\ id \in Finished'
              /\ IF closed' THEN outcome'[id] = "session-closed"
                 ELSE id \in OnWire /\ outcome'[id] \in ReplyKinds
        /\ \A id \in Finished : id \in Finished' /\ outcome'[id] = outcome[id]
        /\ closed' => InFlightIds' = {} /\ Finished' = 1..count'
      ]_vars

\* the Connection was closed with one command replied to, one on the wire
\* and one not yet transmitted
C28_Witness ==
    /\ closed
    /\ \E a, b, c \in Finished :
          /\ outcome[a] = "result"
          /\ outcome[b] = "session-closed" /\ b \in OnWire
          /\ outcome[c] = "session-closed" /\ c \notin OnWire

\* the handler invocations in the order they occur: those started, then
\* those waiting in the queue of the event loop
Order == invoked \o tasks
BucketOf(et) == IF et \in DOMAIN handlers THEN {handlers[et][i] : i \in 1..Len(handlers[et])} ELSE {}
\* the invocations of event ev, its handlers taken in the order they were
\* registered (h1 before h2 before h3)
InRegistrationOrder(ev) ==
    LET hs == SelectSeq(Callables, LAMBDA c : c \in BucketOf(ev.type))
    IN  [i \in 1..Len(hs) |-> [h |-> hs[i], ev |-> ev]]
Received(ev) ==
    /\ stage[ev.request_id] = Emitted(ev.type)
    /\ stage' = [stage EXCEPT ![ev.request_id] = @ + 1]

RemoveCall == calls'.n = calls.n + 1 /\ calls'.last.op = "remove_handlers"
AddCall == calls'.n = calls.n + 1 /\ calls'.last.op = "add_handler"
Buckets(h) == DOMAIN h
Bucket(h, et) == IF et \in DOMAIN h THEN h[et] ELSE <<>>

\* C25: remove_handlers with a handler but no event type fails with
\* ValueError and leaves the handler registry exactly as it was.
C25_HandlerWithoutEventType ==
    [][ (RemoveCall /\ calls'.last.event_type = NotGiven /\ calls'.last.handler # NotGiven)
            => /\ calls'.last.err = "ValueError"
               /\ handlers' = handlers
      ]_vars

\* the call was made on a registry that holds the handler
C25_Witness ==
    /\ calls.last = Call("remove_handlers", NotGiven, "h1", "ValueError")
    /\ Registered(handlers, RequestWillBeSent, "h1") = 2
    /\ Registered(handlers, ResponseReceived, "h2") = 1

\* C26: remove_handlers removes the entries its arguments select and nothing
\* else: with no arguments the registry becomes empty; with an event type
\* only, that bucket disappears and every other bucket is unchanged; with
\* event type and handler, the matching entries leave that bucket, the other
\* handlers in it keep their relative order, and every other bucket is
\* unchanged.
C26_RemovesWhatIsSelected ==
    [][ (RemoveCall /\ calls'.last.err = "none") =>
          LET et == calls'.last.event_type
              fn == calls'.last.handler
          IN  IF et = NotGiven THEN Buckets(handlers') = {}
              ELSE /\ \A x \in Buckets(handlers) \ {et} :
                          x \in Buckets(handlers') /\ handlers'[x] = handlers[x]
                   /\ Buckets(handlers') \subseteq Buckets(handlers)
                   /\ IF fn = NotGiven THEN et \notin Buckets(handlers')
                      ELSE Bucket(handlers', et)
                              = SelectSeq(Bucket(handlers, et), LAMBDA g : g # fn)
      ]_vars

\* h2 was removed from between h1 and h3, with other buckets present
C26_Witness ==
    /\ calls.last = Call("remove_handlers", RequestWillBeSent, "h2", "none")
    /\ Bucket(handlers, RequestWillBeSent) = <<"h1", "h3">>
    /\ Bucket(handlers, ResponseReceived) = <<"h1">>

\* C27: add_handler with a domain marker registers the handler under every
\* event class of the domain, so that on an empty registry the number of
\* buckets becomes the number N of event classes of the domain (27 for
\* Network); add_handler with one event class appends to that bucket only,
\* keeping insertion order and allowing duplicates.
C27_DomainMarkerAndAppend ==
    [][ AddCall =>
          LET t == calls'.last.event_type
              fn == calls'.last.handler
          IN  IF t = Network
              THEN /\ \A x \in EventClasses(Network) :
                          Bucket(handlers', x) = Append(Bucket(handlers, x), fn)
                   /\ Buckets(handlers) = {} =>
                          Cardinality(Buckets(handlers')) = N
              ELSE /\ Bucket(handlers', t) = Append(Bucket(handlers, t), fn)
                   /\ Buckets(handlers') = Buckets(handlers) \cup {t}
                   /\ \A x \in Buckets(handlers) \ {t} : handlers'[x] = handlers[x]
      ]_vars

\* the marker was used on an empty registry, and then a handler was added
\* twice to one event class
C27_Witness ==
    /\ calls.last = Call("add_handler", RequestWillBeSent, "h2", "none")
    /\ Bucket(handlers, RequestWillBeSent) = <<"h1", "h2", "h2">>
    /\ Cardinality(Buckets(handlers)) = N

(* ------------------------ expectation properties ----------------------- *)
\* the pattern matches a proper prefix, suffix or substring of the URL, and
\* not the URL
PartialMatch(p, u) ==
    /\ Compiles(p)
    /\ ~MatchFrom(p, u)
    /\ \E i \in 1..Len(u) : \E j \in i..Len(u) : MatchFrom(p, SubSeq(u, i, j))

\* C29: a RequestWillBeSent whose URL the predicate matches only in part
\* does not set request_id, does not complete the request slot and does not
\* detach the request handler.
C29_PartialMatchIgnored ==
    [][ (Runs("_request_handler") /\ PartialMatch(url_pattern, Head(tasks).ev.url))
            => /\ request_id' = request_id
               /\ heap' = heap
               /\ handlers' = handlers
      ]_vars

\* the handler has run on the request of a URL that the pattern matches up
\* to its last token, the handler of a second such request is next, and
\* nothing was captured
C29_Witness ==
    /\ scope = "entered"
    /\ url_pattern = <<"a", "b">>
    /\ stage = [i \in ReqIds |-> 1]
    /\ Len(tasks) = 1
    /\ Head(tasks).h = "_request_handler"
    /\ Head(tasks).ev.url = <<"a", "b", "c">>
    /\ request_id = None
    /\ Pending(request_future)
    /\ Registered(handlers, RequestWillBeSent, "_request_handler") = 1

\* C30: when a bounded wait on the value of an expectation times out inside
\* the scope, the handlers stay registered and the slots stay pending, and a
\* matching event that arrives after the timeout and before scope exit still
\* completes the slot.
C30_TimeoutLeavesScopeArmed ==
    (vw.pc = "timed_out" /\ scope = "entered") =>
        IF request_id = None
        THEN /\ Registered(handlers, RequestWillBeSent, "_request_handler") = 1
             /\ Registered(handlers, ResponseReceived, "_response_handler") = 1
             /\ Registered(handlers, LoadingFinished, "_loading_finished_handler") = 1
             /\ Pending(request_future)
             /\ Pending(response_future)
             /\ Pending(loading_finished_future)
        ELSE /\ Done(request_future)
             /\ heap[request_future].ev.request_id = request_id

(* ------------------- key compiler properties, continued ---------------- *)
ModifierCodes == {ModifierCode(b) : b \in {Alt, Ctrl, Meta, Shift}}

\* C31: when the main key of a DOWN_AND_UP expansion is itself one of the
\* modifier keys held by the mask M, no keyDown or keyUp of its own is
\* emitted for it: the output has exactly 2*popcount(M) payloads, all of
\* them events of modifier keys, one keyDown and one keyUp per held modifier.
C31_HeldModifierAsMainKey ==
    (RanDownAndUp /\ MainKeyIsHeldModifier) =>
        /\ result.err = "none"
        /\ Len(result.out) = 2 * popcount(call.modifiers)
        /\ \A i \in 1..Len(result.out) :
              /\ result.out[i].code \in ModifierCodes
              /\ result.out[i].type_ \in {KEY_DOWN, KEY_UP}
        /\ \A b \in {Alt, Ctrl, Meta, Shift} :
              Bit(call.modifiers, b) =>
                 /\ Cardinality({i \in 1..Len(result.out) :
                        Brief(result.out[i])[1] = KEY_DOWN
                        /\ result.out[i].code = ModifierCode(b)}) = 1
                 /\ Cardinality({i \in 1..Len(result.out) :
                        Brief(result.out[i])[1] = KEY_UP
                        /\ result.out[i].code = ModifierCode(b)}) = 1

C31_Witness ==
    /\ RanDownAndUp
    /\ call.key = Special("META")
    /\ call.modifiers = Ctrl + Meta
    /\ Len(result.out) = 4
    /\ result.out[2].code = <<"Meta", "Left">>
    /\ result.out[2].type_ = KEY_DOWN

RanTwice == Ran("to_cdp_events") /\ second.err # "not run"

\* C35: to_cdp_events is repeatable: called twice with the same arguments on
\* the same KeyEvents instance it returns two equal payload lists (or fails
\* twice alike), for every key and both supported modes.
C35_Repeatable ==
    (RanTwice /\ call.mode \in {CHAR, DOWN_AND_UP}) => second = result

\* a grapheme outside the keyboard tables: not one English letter, ASCII
\* digit, table or shifted punctuation character, or whitespace character
OffKeyboard(g) == Len(g) > 1 \/ g[1] \notin Ascii

\* C32: from_text compiles a text that is one grapheme outside the keyboard
\* tables (a non-ASCII letter or digit, an emoji, a combining sequence) to
\* exactly one char payload whose text is the grapheme and that has no key,
\* code or virtual key code, whatever the requested mode.
C32_OffKeyboardIsOneCharPayload ==
    (Ran("from_text") /\ graphemes(call.text) = <<call.text>> /\ OffKeyboard(call.text)) =>
        result = Returns(<<CharPayload(call.text)>>)

\* the cases of C32 that hold: every such grapheme but a non-ASCII digit
C32_CombiningSequence ==
    /\ Ran("from_text")
    /\ call.text = <<"e", "COMBINING_ACUTE">>
    /\ call.mode = DOWN_AND_UP
    /\ result = Returns(<<CharPayload(call.text)>>)

\* the keys left pressed after a payload list, scanned from a set of pressed
\* keys: a keyDown presses its (code, virtual key code), a keyUp releases it,
\* a char payload presses nothing; "unbalanced" when a pressed key is pressed
\* again or a key that is not pressed is released
KeyOf(payload) == <<payload.code, payload.windows_virtual_key_code>>
RECURSIVE Pressed(_, _)
Pressed(payloads, pressed) ==
    IF payloads = <<>> THEN pressed
    ELSE LET p == Head(payloads)
         IN  CASE p.type_ = KEY_DOWN ->
                    IF KeyOf(p) \in pressed THEN {"unbalanced"}
                    ELSE Pressed(Tail(payloads), pressed \cup {KeyOf(p)})
               [] p.type_ = KEY_UP ->
                    IF KeyOf(p) \notin pressed THEN {"unbalanced"}
                    ELSE Pressed(Tail(payloads), pressed \ {KeyOf(p)})
               [] OTHER -> Pressed(Tail(payloads), pressed)
Balanced(payloads) == Pressed(payloads, {}) = {}
EndsReleased(payloads) == payloads = <<>> \/ payloads[Len(payloads)].modifiers = 0

\* the expansions of the items of the call: of each grapheme of a text, of
\* each item of a mixed input
Expansions ==
    IF call.fn = "from_text"
    THEN LET gs == graphemes(call.text)
         IN  [i \in 1..Len(gs) |-> from_grapheme(gs[i], call.mode)]
    ELSE [i \in 1..Len(call.input) |-> from_item(call.input[i], call.mode)]

\* C36: every payload list that from_text or from_mixed_input returns in
\* DOWN_AND_UP mode is balanced: every keyDown is answered by one later keyUp
\* with the same code and virtual key code, no key is released before it is
\* pressed, nothing stays pressed at the end, and the expansion of each item
\* ends with a payload whose modifiers mask is 0.
C36_Balanced ==
    ((Ran("from_text") \/ Ran("from_mixed_input")) /\ call.mode = DOWN_AND_UP
        /\ result.err = "none") =>
        /\ Balanced(result.out)
        /\ \A i \in DOMAIN Expansions :
                /\ Expansions[i].err = "none"
                /\ Balanced(Expansions[i].out)
                /\ EndsReleased(Expansions[i].out)

C36_Witness ==
    /\ Ran("from_mixed_input")
    /\ call.mode = DOWN_AND_UP
    /\ Len(call.input) = 3
    /\ call.input[2] = Pair(Special("ALT"), Ctrl)
    /\ result.err = "none"
    /\ Len(result.out) = 18
    /\ result.out[10].type_ = KEY_DOWN
    /\ result.out[10].code = <<"Alt", "Left">>
    /\ result.out[18].type_ = KEY_UP
    /\ result.out[18].modifiers = 0

\* C33: in every state of an expectation scope, whatever the interleaving of
\* event dispatch and handler execution, request_id is set exactly when the
\* request slot is complete and is then the request id of the event in the
\* slot; and no handler invocation writes a slot that is already complete.
C33_RequestIdTracksSlot ==
    [][/\ scope' = "entered" =>
            /\ (request_id' # None) <=> Done(request_future)'
            /\ Done(request_future)' => heap'[request_future'].ev.request_id = request_id'
       /\ (Runs("_request_handler") /\ fullmatch(url_pattern, Head(tasks).ev.url) = "match")
            => Pending(request_future)
       /\ (Runs("_response_handler") /\ Head(tasks).ev.request_id = request_id)
            => Pending(response_future)
       /\ (Runs("_loading_finished_handler") /\ Head(tasks).ev.request_id = request_id)
            => Pending(loading_finished_future)
      ]_vars

\* the futures a handler can still write: the ones the attributes hold now
Writable == {request_future, response_future, loading_finished_future, fetch_response_future}

\* C34: reset() never leaves a caller that awaits a slot (response_body of an
\* expectation, an operation of an interception) waiting on a future that no
\* handler can write any more, so that a matching event after the reset
\* completes the caller.
C34_ResetKeepsAwaiters ==
    /\ rb.pc \in {"await_response", "await_loading"} => rb.fut \in Writable
    /\ op.pc = "await_paused" => op.fut \in Writable

\* C37: after a DownloadExpectation scope exited its DownloadWillBegin
\* handler is not registered, whether or not a download fired inside the
\* scope and also when the restoring Browser.setDownloadBehavior failed; and
\* the download slot is written at most once: no invocation of the handler
\* writes a complete slot.
C37_DownloadHandlerGoneAfterExit ==
    [][/\ dl' \in {"exited", "exit_failed"}
            => Registered(handlers', DownloadWillBegin, "_handler") = 0
       /\ Runs("_handler") => Pending(future)
      ]_vars

\* the Fetch.enable and Fetch.disable commands sent so far, in order
FetchToggles == SelectSeq(sent, LAMBDA c : c.method \in {"Fetch.enable", "Fetch.disable"})
FetchEnabledLast ==
    FetchToggles # <<>> /\ FetchToggles[Len(FetchToggles)].method = "Fetch.enable"

\* C38: whenever an enter, reset or exit of the interception has returned,
\* enabled_domains lists Fetch exactly when the last Fetch.enable or
\* Fetch.disable command sent was Fetch.enable, and never lists it more than
\* once; after the exit that sent Fetch.disable, Fetch is not listed.
C38_EnabledDomainsTracksFetch ==
    fi \in {"new", "entered", "exited"} =>
        /\ Count(enabled_domains, "Fetch") <= 1
        /\ (Count(enabled_domains, "Fetch") > 0) <=> FetchEnabledLast

\* handler h has been invoked on an event of request R and the invocation is
\* scheduled: the event was delivered while the handler was registered
Delivered(h, R) ==
    \E i \in DOMAIN tasks : tasks[i].h = h /\ tasks[i].ev.request_id = R
Matching(t) == t.h = "_request_handler" /\ fullmatch(url_pattern, t.ev.url) = "match"
\* the first URL-matching RequestWillBeSent delivered in the scope is of request R
FirstMatchDelivered(R) ==
    /\ Pending(request_future)
    /\ request_id = None
    /\ \E i \in DOMAIN tasks :
            /\ Matching(tasks[i])
            /\ tasks[i].ev.request_id = R
            /\ \A j \in 1..(i - 1) : ~Matching(tasks[j])
\* the three slots hold the events of request R
Captured(R) ==
    /\ Done(request_future) /\ heap[request_future].ev.request_id = R
    /\ Done(response_future) /\ heap[response_future].ev.request_id = R
    /\ Done(loading_finished_future) /\ heap[loading_finished_future].ev.request_id = R
BodyRequested(R) ==
    \E i \in DOMAIN sent : sent[i] = Cmd("Network.getResponseBody", R, <<>>)
Awaiting == rb.pc \in {"await_response", "await_loading"}

\* C39: when, inside a scope, a URL-matching RequestWillBeSent of request R
\* (the first one of the scope), then ResponseReceived of R, then
\* LoadingFinished of R have been delivered,
\* the three slots eventually hold these events, and a caller that awaits
\* response_body eventually sends Network.getResponseBody for R.
C39_DeliveredInOrderCompletes ==
    \A R \in ReqIds :
        [](FirstMatchDelivered(R) =>
            [](Delivered("_response_handler", R) =>
                [](Delivered("_loading_finished_handler", R) =>
                    /\ <>Captured(R)
                    /\ [](Awaiting => <>BodyRequested(R)))))

\* two URL-matching RequestWillBeSent events are dispatched before the
\* handler has run on the first
DoubleDispatch ==
    \E i, j \in DOMAIN tasks : i < j /\ Matching(tasks[i]) /\ Matching(tasks[j])
\* on the behaviours without such a double dispatch the property of C39 holds
DeliveredInOrderCompletesUnlessDoubleDispatch ==
    (<>DoubleDispatch) \/ C39_DeliveredInOrderCompletes

====
